---- MODULE Spec2Model ----
(***************************************************************************)
(* gophermart: the order store, the accrual worker and the balance ledger. *)
(*                                                                         *)
(* The store is a PostgreSQL database reached through database/sql.  Every *)
(* statement is atomic; a transaction opened with BeginTx(ctx, nil) runs   *)
(* at the server's default isolation level, READ COMMITTED: each statement *)
(* of the transaction reads what is committed when the statement runs, the *)
(* rows it inserts become visible to others at Commit, and it takes no     *)
(* lock on the rows it only reads.                                         *)
(*                                                                         *)
(* Strings are sequences of bytes (Go strings).  Amounts are float64 in    *)
(* the code and natural numbers here (whole units of the currency); the    *)
(* accrual provider is taken to report non-negative amounts.  An order's   *)
(* uploaded_at is its position in the orders table: time.Now() is taken    *)
(* immediately before the INSERT that stores it.  A withdrawal's           *)
(* processed_at is the reading of time.Now() passed to its INSERT; every   *)
(* reading is later than the readings held by the rows stored or pending.  *)
(***************************************************************************)
EXTENDS Integers, Sequences, FiniteSets, TLC

\* ---------------------------------------------------------------- bounds

\* Largest accrual amount the provider reports.
MaxAccrual == 2
\* Largest amount a client asks to withdraw.
MaxSum == 2
\* Number of Withdraw calls made (each call slot is used once).
MaxWithdrawCalls == 2
\* Number of CreateOrder calls made (each call slot is used once).
MaxCreateCalls == 2
\* Longest order number, in bytes, given to the checksum.
MaxLen == 3

\* ------------------------------------------------------- program constants

\* StartWorker: pollInterval := time.Second (in seconds).
BaseInterval == 1
\* StartWorker: min(pollInterval*2, 10*time.Second) (in seconds).
MaxInterval == 10
\* StartWorker: batchSize := 100.
batchSize == 100
\* parseRetryAfter: time.Minute (in seconds).
DefaultRetryAfter == 60

\* ----------------------------------------------------------------- values

Users == {1, 2}

\* "18" and "26" pass the checksum, "12" fails it, "" is empty.
Num18 == <<49, 56>>
Num26 == <<50, 54>>
Num12 == <<49, 50>>
NumEmpty == <<>>

\* The order numbers clients submit and the labels they withdraw against.
OrderNumbers == {Num18, Num26, Num12, NumEmpty}
Labels == {Num18, Num12, NumEmpty}

\* Retry-After header values: absent (""), "1", "2", "0", "-1", "x", and
\* "9223372037", the least number of seconds whose nanoseconds exceed 2^63 - 1.
HdrAbsent == <<>>
Hdr1 == <<49>>
Hdr2 == <<50>>
Hdr0 == <<48>>
HdrMinus1 == <<45, 49>>
HdrX == <<120>>
HdrHuge == <<57, 50, 50, 51, 51, 55, 50, 48, 51, 55>>

\* The Retry-After headers the provider sends with a 429, and the one short
\* pause used where the pause itself is not under study.
RetryAfterHeaders == {HdrAbsent, Hdr1, Hdr2, Hdr0, HdrMinus1, HdrX, HdrHuge}
ShortRetryAfter == {Hdr1}

\* A nullable column (sql.NullFloat64, *float64): <<>> is NULL, <<v>> is v.
Null == <<>>
Some(v) == <<v>>

Min(a, b) == IF a < b THEN a ELSE b

\* ------------------------------------------------------ order number check

\* unicode.IsDigit on a rune: the decimal digits (category Nd) below U+0800.
IsDigit(r) ==
    \/ r \in 48..57
    \/ r \in 1632..1641
    \/ r \in 1776..1785
    \/ r \in 1984..1993

\* for _, r := range s { if !unicode.IsDigit(r) { return false } }
\* over the UTF-8 decoding of s: one-byte and two-byte sequences; any other
\* byte decodes to U+FFFD (or to a rune outside the alphabet modelled), no digit.
RECURSIVE AllDigits(_)
AllDigits(s) ==
    IF s = <<>> THEN TRUE
    ELSE IF s[1] < 128 THEN IsDigit(s[1]) /\ AllDigits(Tail(s))
    ELSE IF s[1] \in 194..223 /\ Len(s) >= 2 /\ s[2] \in 128..191
         THEN IsDigit((s[1] - 192) * 64 + (s[2] - 128)) /\ AllDigits(Tail(Tail(s)))
    ELSE FALSE

\* Mutant: a doubled value above 9 is reduced by 10.
RECURSIVE LuhnLoop_Minus10(_, _, _, _)
LuhnLoop_Minus10(s, i, double, sum) ==
    IF i < 1 THEN sum
    ELSE LET d0 == (s[i] - 48) % 256
             d2 == IF d0 * 2 > 9 THEN d0 * 2 - 10 ELSE d0 * 2
             d  == IF double THEN d2 ELSE d0
         IN  LuhnLoop_Minus10(s, i - 1, ~double, sum + d)

\* for i := len(s) - 1; i >= 0; i-- { d := int(s[i] - '0'); ... } over bytes;
\* the byte subtraction wraps modulo 256.
RECURSIVE LuhnLoop(_, _, _, _)
LuhnLoop(s, i, double, sum) ==
    IF i < 1 THEN sum
    ELSE LET d0 == (s[i] - 48) % 256
             d2 == IF d0 * 2 > 9 THEN d0 * 2 - 9 ELSE d0 * 2
             d  == IF double THEN d2 ELSE d0
         IN  LuhnLoop(s, i - 1, ~double, sum + d)

IsValidOrderNumber(s) ==
    /\ s # <<>>
    /\ AllDigits(s)
    /\ LuhnLoop(s, Len(s), FALSE, 0) % 10 = 0

\* ---------------------------------------------------------------- state

VARIABLES
    orders,        \* table orders, in uploaded_at order: [user, number, status, accrual]
    withdrawals,   \* table withdrawals, in commit order: [user, order, sum, at]
    co,            \* CreateOrder calls: co[c] = [pc, user, number, res]
    wpc,           \* the worker's position in StartWorker / processOrder
    pollInterval,  \* StartWorker's pollInterval, in seconds
    batch,         \* the PendingOrder ids of the batch being processed
    idx,           \* position in batch of the order being processed
    sleepLeft,     \* seconds left of processOrder's time.Sleep (0: not sleeping)
    resp,          \* the provider's HTTP response GetOrderInfo has received, if any
    ctxDone,       \* the worker's ctx has been cancelled
    wd,            \* Withdraw calls: wd[r] = [pc, user, order, sum, accrued, withdrawn, tx, res]
    gb,            \* the GetBalance call: [pc, user, accrued, res, dirty]
    auth           \* the request at the authentication wrapper and what became of it

vars == <<orders, withdrawals, co, wpc, pollInterval, batch, idx, sleepLeft, resp,
          ctxDone, wd, gb, auth>>

storeVars == <<orders, withdrawals>>
workerVars == <<wpc, pollInterval, batch, idx, sleepLeft, resp>>

Creators == 1..MaxCreateCalls
Requests == 1..MaxWithdrawCalls

StatusNew == "NEW"
StatusProcessing == "PROCESSING"
StatusInvalid == "INVALID"
StatusProcessed == "PROCESSED"

OrderIds == DOMAIN orders

\* ------------------------------------------------------------ order store

Pending == {StatusNew, StatusProcessing}

\* Mutant: no order is ever found under a number, by the lookup or by the
\* UNIQUE constraint.
NumberExists_Never(number) == FALSE

\* SELECT user_id FROM orders WHERE number = $1: does a row exist.
NumberExists(number) == \E i \in OrderIds : orders[i].number = number

\* OrderRepository.GetByNumber: the owner of the order with that number.
GetByNumber(number) == orders[CHOOSE i \in OrderIds : orders[i].number = number].user

\* Mutant: the INSERT stores an accrual of 0.
Create_ZeroAccrual(userID, number, status) ==
    Append(orders, [user |-> userID, number |-> number, status |-> status,
                    accrual |-> Some(0)])

\* OrderRepository.Create: INSERT INTO orders (user_id, number, status, uploaded_at);
\* the accrual column is left NULL.
Create(userID, number, status) ==
    Append(orders, [user |-> userID, number |-> number, status |-> status, accrual |-> Null])

\* Mutant: the status filter is dropped from the query.
IsPending_Any(o) == TRUE

\* The WHERE clause of GetPendingOrders: status IN ('NEW', 'PROCESSING').
IsPending(o) == o.status \in Pending

\* Mutant: the query has no LIMIT.
RECURSIVE PendingFrom_NoLimit(_, _)
PendingFrom_NoLimit(i, limit) ==
    IF i > Len(orders) THEN <<>>
    ELSE IF orders[i].status \in Pending
    THEN <<i>> \o PendingFrom_NoLimit(i + 1, limit)
    ELSE PendingFrom_NoLimit(i + 1, limit)

\* OrderRepository.GetPendingOrders: the ids of the pending orders from row i on,
\* ORDER BY uploaded_at LIMIT limit.
PendingFrom(i, limit) ==
    LET ids == SelectSeq([k \in 1..Len(orders) |-> k],
                         LAMBDA k : k >= i /\ IsPending(orders[k]))
    IN  SubSeq(ids, 1, IF Len(ids) < limit THEN Len(ids) ELSE limit)

GetPendingOrders(limit) == PendingFrom(1, limit)

\* OrderRepository.UpdateStatus: UPDATE orders SET status = $1 WHERE id = $2.
UpdateStatus(orderID, status) == [orders EXCEPT ![orderID].status = status]

\* Mutant: the accrual column is left out of the UPDATE.
UpdateStatusWithAccrual_StatusOnly(orderID, status, accrual) ==
    [orders EXCEPT ![orderID].status = status]

\* OrderRepository.UpdateStatusWithAccrual:
\* UPDATE orders SET status = $1, accrual = $2 WHERE id = $3.
UpdateStatusWithAccrual(orderID, status, accrual) ==
    [orders EXCEPT ![orderID].status = status, ![orderID].accrual = Some(accrual)]

\* A committed write happened: a GetBalance call that has started saw, or may
\* have missed, it.
GbAfterWrite == IF gb.pc = "idle" THEN gb ELSE [gb EXCEPT !.dirty = TRUE]

\* ------------------------------------------------------------ CreateOrder

CoIdle == [pc |-> "idle", user |-> 1, number |-> NumEmpty, res |-> "none"]

\* Call slots are used once each, in order.
CoCanStart(c) == co[c].pc = "idle" /\ \A d \in Creators : d < c => co[d].pc # "idle"

\* OrderService.CreateOrder, up to the lookup: the two input checks.
CreateOrderCall(c, numbers) ==
    /\ CoCanStart(c)
    /\ \E u \in Users, n \in numbers :
         co' = [co EXCEPT ![c] =
                  IF n = NumEmpty
                  THEN [pc |-> "done", user |-> u, number |-> n, res |-> "ErrInvalidInput"]
                  ELSE IF ~IsValidOrderNumber(n)
                  THEN [pc |-> "done", user |-> u, number |-> n, res |-> "ErrInvalidOrderNumber"]
                  ELSE [pc |-> "lookup", user |-> u, number |-> n, res |-> "none"]]
    /\ UNCHANGED <<storeVars, workerVars, ctxDone, wd, gb, auth>>

\* OrderService.CreateOrder: s.orderRepo.GetByNumber and the branches on its result.
CreateOrderLookup(c) ==
    /\ co[c].pc = "lookup"
    /\ \/ /\ NumberExists(co[c].number)
          /\ co' = [co EXCEPT ![c].pc = "done",
                              ![c].res = IF GetByNumber(co[c].number) = co[c].user
                                         THEN "exists" ELSE "ErrConflict"]
       \/ /\ ~NumberExists(co[c].number)
          /\ co' = [co EXCEPT ![c].pc = "insert"]
       \/ co' = [co EXCEPT ![c].pc = "done", ![c].res = "get order by number"]
    /\ UNCHANGED <<storeVars, workerVars, ctxDone, wd, gb, auth>>

\* OrderService.CreateOrder: s.orderRepo.Create(ctx, userID, number, "NEW", time.Now()).
\* The INSERT fails when the number is already there (number TEXT NOT NULL UNIQUE:
\* the wrapped error is the unique violation) or when the store fails.
CreateOrderInsert(c) ==
    /\ co[c].pc = "insert"
    /\ \/ /\ ~NumberExists(co[c].number)
          /\ orders' = Create(co[c].user, co[c].number, StatusNew)
          /\ co' = [co EXCEPT ![c].pc = "done", ![c].res = "created"]
          /\ gb' = GbAfterWrite
       \/ /\ NumberExists(co[c].number)
          /\ co' = [co EXCEPT ![c].pc = "done", ![c].res = "create order: unique violation"]
          /\ UNCHANGED <<orders, gb>>
       \/ /\ co' = [co EXCEPT ![c].pc = "done", ![c].res = "create order"]
          /\ UNCHANGED <<orders, gb>>
    /\ UNCHANGED <<withdrawals, workerVars, ctxDone, wd, auth>>

\* ---------------------------------------------------------- accrual worker

\* The statuses the provider reports (accrual.OrderStatus); any other string
\* decodes as well and matches no case of processOrder's switch.
StatusRegistered == "REGISTERED"
StatusOther == "OTHER"
ProviderStatuses ==
    {StatusRegistered, StatusProcessing, StatusInvalid, StatusProcessed, StatusOther}

\* OrderAccrual.Accrual, a *float64: nil or an amount.
ProviderAccruals == {Null} \cup {Some(a) : a \in 0..MaxAccrual}

\* Mutant: the loop does not move on to the next order.
NextItem_Repeat ==
    /\ wpc' = "item"
    /\ UNCHANGED <<batch, idx, auth>>

\* processOrder returned: the range loop takes the next order of the batch, or
\* ends and StartWorker goes back to its select.
NextItem ==
    IF idx < Len(batch)
    THEN /\ idx' = idx + 1
         /\ wpc' = "item"
         /\ UNCHANGED batch
    ELSE /\ idx' = 0
         /\ wpc' = "wait"
         /\ batch' = <<>>

\* The signal that cancels the worker's context (signal.NotifyContext).
Cancel ==
    /\ ~ctxDone
    /\ ctxDone' = TRUE
    /\ UNCHANGED <<storeVars, workerVars, co, wd, gb, auth>>

\* StartWorker: select { case <-ctx.Done(): return ... } at the top of the loop.
WorkerWaitCancelled ==
    /\ wpc = "wait"
    /\ ctxDone
    /\ wpc' = "stopped"
    /\ UNCHANGED <<storeVars, resp, pollInterval, batch, idx, sleepLeft, ctxDone, co, wd, gb, auth>>

\* Mutant: the doubling is not capped.
Backoff_NoCap(interval) == interval * 2

\* StartWorker: the backoff after an empty batch.
Backoff(interval) == Min(interval * 2, MaxInterval)

\* Mutant: a non-empty batch leaves the interval as it is.
ResetInterval_Keep(interval) == interval

\* StartWorker: pollInterval = time.Second after a non-empty batch.
ResetInterval(interval) == BaseInterval

\* Mutant: a failed fetch is treated as an empty batch and doubles the
\* interval.
WorkerPoll_FailureBacksOff ==
    /\ wpc = "wait"
    /\ \/ /\ pollInterval' = Backoff(pollInterval)
          /\ UNCHANGED <<wpc, batch, idx, sleepLeft>>
       \/ /\ ~ctxDone
          /\ GetPendingOrders(batchSize) # <<>>
          /\ pollInterval' = ResetInterval(pollInterval)
          /\ batch' = GetPendingOrders(batchSize)
          /\ idx' = 1
          /\ wpc' = "item"
          /\ UNCHANGED sleepLeft
    /\ UNCHANGED <<storeVars, resp, ctxDone, co, wd, gb, auth>>

\* StartWorker: case <-time.After(pollInterval), then GetPendingOrders and the
\* three branches on its result.  With ctx cancelled the query fails.
WorkerPoll ==
    /\ wpc = "wait"
    /\ \/ /\ UNCHANGED workerVars
       \/ /\ ~ctxDone
          /\ GetPendingOrders(batchSize) = <<>>
          /\ pollInterval' = Backoff(pollInterval)
          /\ UNCHANGED <<wpc, batch, idx, sleepLeft>>
       \/ /\ ~ctxDone
          /\ GetPendingOrders(batchSize) # <<>>
          /\ pollInterval' = ResetInterval(pollInterval)
          /\ batch' = GetPendingOrders(batchSize)
          /\ idx' = 1
          /\ wpc' = "item"
          /\ UNCHANGED sleepLeft
    /\ UNCHANGED <<storeVars, resp, ctxDone, co, wd, gb, auth>>

\* StartWorker: select { case <-ctx.Done(): return; default: processOrder } before
\* each order of the batch.
WorkerItemCancelled ==
    /\ wpc = "item"
    /\ ctxDone
    /\ wpc' = "stopped"
    /\ batch' = <<>>
    /\ idx' = 0
    /\ UNCHANGED <<storeVars, resp, pollInterval, sleepLeft, ctxDone, co, wd, gb, auth>>

\* Mutant: the loop does not look at ctx before an order.
WorkerQuery_IgnoreCancel ==
    /\ wpc = "item"
    /\ wpc' = "call"
    /\ UNCHANGED <<storeVars, resp, pollInterval, batch, idx, sleepLeft, ctxDone, co, wd, gb, auth>>

\* processOrder: s.accrualClient.GetOrderInfo(ctx, number) is issued for batch[idx].
WorkerQuery ==
    /\ wpc = "item"
    /\ ~ctxDone
    /\ wpc' = "call"
    /\ UNCHANGED <<storeVars, resp, pollInterval, batch, idx, sleepLeft, ctxDone, co, wd, gb, auth>>

\* Go's int and time.Duration have 64 bits on the builds the service is made
\* for.  A 64-bit value is kept as four 16-bit digits, the least significant
\* first, and a fifth that is 1 when a result did not fit 64 bits.
Word == 65536

\* x * k + a in 64 bits (k and a below 2^15): the product wraps around.
MulAdd(x, k, a) ==
    LET Product(y) ==
            LET c1 == y[1] * k + a
                c2 == y[2] * k + (c1 \div Word)
                c3 == y[3] * k + (c2 \div Word)
                c4 == y[4] * k + (c3 \div Word)
            IN  <<c1 % Word, c2 % Word, c3 % Word, c4 % Word,
                  IF y[5] > 0 \/ c4 \div Word > 0 THEN 1 ELSE 0>>
    IN  CHOOSE p \in {Product(y) : y \in {x}} : TRUE

\* x / k for a non-negative 64-bit x and k below 2^15.
DivBy(x, k) ==
    LET Quotient(y) ==
            LET n3 == (y[4] % k) * Word + y[3]
                n2 == (n3 % k) * Word + y[2]
                n1 == (n2 % k) * Word + y[1]
            IN  <<n1 \div k, n2 \div k, n3 \div k, y[4] \div k, 0>>
    IN  CHOOSE q \in {Quotient(y) : y \in {x}} : TRUE

\* The digits of s read as a decimal number, after acc.
RECURSIVE DecimalValue(_, _)
DecimalValue(s, acc) ==
    IF s = <<>> THEN acc ELSE DecimalValue(Tail(s), MulAdd(acc, 10, s[1] - 48))

\* strconv.Atoi: an optional sign, then one or more of '0'..'9'; a value
\* outside -2^63 .. 2^63 - 1 is a range error.  n is the value when it is
\* within 31 bits and the nearest 31-bit value otherwise, mag its magnitude
\* in 64 bits.
Atoi(s) ==
    LET signed == s # <<>> /\ s[1] \in {43, 45}
        body == IF signed THEN Tail(s) ELSE s
        neg == signed /\ s[1] = 45
        mag == DecimalValue(body, <<0, 0, 0, 0, 0>>)
        n == IF mag[2] < 32768 /\ mag[3] = 0 /\ mag[4] = 0 /\ mag[5] = 0
             THEN mag[1] + mag[2] * Word
             ELSE 2147483647
    IN  IF body = <<>> \/ \E i \in DOMAIN body : body[i] \notin 48..57
        THEN [err |-> TRUE, n |-> 0, mag |-> <<0, 0, 0, 0, 0>>]
        ELSE IF mag[5] > 0 \/ (mag[4] >= 32768 /\ ~(neg /\ mag = <<0, 0, 0, 32768, 0>>))
        THEN [err |-> TRUE, n |-> 0, mag |-> <<0, 0, 0, 0, 0>>]
        ELSE [err |-> FALSE, n |-> IF neg THEN 0 - n ELSE n, mag |-> mag]

\* accrual.parseRetryAfter, in whole seconds: time.Duration(sec) * time.Second
\* is a 64-bit product in nanoseconds.  A negative Duration is given as -1,
\* one of 2^31 seconds or more as 2^31 - 1.
parseRetryAfter(v) ==
    IF v = <<>> THEN DefaultRetryAfter
    ELSE IF Atoi(v).err \/ Atoi(v).n <= 0 THEN DefaultRetryAfter
    ELSE LET d == MulAdd(MulAdd(MulAdd(Atoi(v).mag, 1000, 0), 1000, 0), 1000, 0)
             q == DivBy(DivBy(DivBy(d, 1000), 1000), 1000)
         IN  IF d[4] >= 32768 THEN 0 - 1
             ELSE IF q[2] < 32768 /\ q[3] = 0 /\ q[4] = 0 THEN q[1] + q[2] * Word
             ELSE 2147483647

\* An HTTP exchange of GetOrderInfo: c.client.Do failed, or it returned a
\* response with a status code, a body that decodes into an OrderAccrual
\* (status, accrual) or does not, and a Retry-After header.
Exchange(failed, code, decodes, status, accrual, header) ==
    [failed |-> failed, code |-> code, decodes |-> decodes, status |-> status,
     accrual |-> accrual, header |-> header]

\* No exchange has completed.
NoResp == Exchange(FALSE, 0, FALSE, StatusOther, Null, HdrAbsent)

\* The exchanges the provider and the network can produce.
Responses(headers) ==
    {Exchange(TRUE, 0, FALSE, StatusOther, Null, HdrAbsent)}
    \cup {Exchange(FALSE, 200, TRUE, st, acc, HdrAbsent) :
             st \in ProviderStatuses, acc \in ProviderAccruals}
    \cup {Exchange(FALSE, 200, FALSE, StatusOther, Null, HdrAbsent)}
    \cup {Exchange(FALSE, code, FALSE, StatusOther, Null, h) :
             code \in {204, 429, 500}, h \in headers}

\* What GetOrderInfo returns: (*OrderAccrual, error), and the RetryAfter of a
\* *RateLimitError in seconds.
Returned(info, err, retryAfter) ==
    [info |-> info, err |-> err, retryAfter |-> retryAfter]

\* Client.GetOrderInfo: the switch on resp.StatusCode.
GetOrderInfo(r) ==
    IF r.failed THEN Returned(Null, "do request", 0)
    ELSE IF r.code = 200
    THEN IF r.decodes
         THEN Returned(Some([status |-> r.status, accrual |-> r.accrual]), "nil", 0)
         ELSE Returned(Null, "decode response", 0)
    ELSE IF r.code = 204
    THEN Returned(Null, "nil", 0)
    ELSE IF r.code = 429
    THEN Returned(Null, "RateLimitError", parseRetryAfter(r.header))
    ELSE Returned(Null, "unexpected status code", 0)

\* The exchange GetOrderInfo returns from: the one that has completed, or
\* one that completes as the call returns.
Arrived(headers) == IF resp = NoResp THEN Responses(headers) ELSE {resp}

\* Client.GetOrderInfo: c.client.Do(req) completes while processOrder waits.
ProviderReply(headers) ==
    /\ wpc = "call"
    /\ resp = NoResp
    /\ resp' \in Responses(headers)
    /\ UNCHANGED <<storeVars, wpc, pollInterval, batch, idx, sleepLeft, ctxDone, co, wd, gb, auth>>

\* Mutant: the worker gives up on a provider error.
ProviderError_Exit ==
    /\ wpc = "call"
    /\ wpc' = "stopped"
    /\ batch' = <<>>
    /\ idx' = 0
    /\ resp' = NoResp
    /\ UNCHANGED <<storeVars, pollInterval, sleepLeft, ctxDone, co, wd, gb, auth>>

\* Mutant: processOrder is called again for the same order.
ProviderError_Retry ==
    /\ wpc = "call"
    /\ \E r \in Arrived({HdrAbsent}) :
         GetOrderInfo(r).err \notin {"nil", "RateLimitError"}
    /\ wpc' = "item"
    /\ resp' = NoResp
    /\ UNCHANGED <<storeVars, pollInterval, batch, idx, sleepLeft, ctxDone, co, wd, gb, auth>>

\* processOrder: GetOrderInfo failed with an error that is no RateLimitError.
ProviderError ==
    /\ wpc = "call"
    /\ \E r \in Arrived({HdrAbsent}) :
         GetOrderInfo(r).err \notin {"nil", "RateLimitError"}
    /\ NextItem
    /\ resp' = NoResp
    /\ UNCHANGED <<storeVars, pollInterval, sleepLeft, ctxDone, co, wd, gb, auth>>

\* processOrder: GetOrderInfo returned a *RateLimitError (429, with the
\* Retry-After header); time.Sleep(rl.RetryAfter) begins, and returns at once
\* for a duration that is not positive.
ProviderRateLimited(headers) ==
    /\ wpc = "call"
    /\ wpc' = "sleep"
    /\ \E r \in Arrived(headers) :
         /\ GetOrderInfo(r).err = "RateLimitError"
         /\ sleepLeft' = IF GetOrderInfo(r).retryAfter > 0
                         THEN GetOrderInfo(r).retryAfter
                         ELSE 0
    /\ resp' = NoResp
    /\ UNCHANGED <<storeVars, pollInterval, batch, idx, ctxDone, co, wd, gb, auth>>

\* Mutant: the pause starts over instead of ending.
SleepTick_Endless ==
    /\ wpc = "sleep"
    /\ sleepLeft > 0
    /\ sleepLeft' = IF sleepLeft > 1 THEN sleepLeft - 1 ELSE DefaultRetryAfter
    /\ UNCHANGED <<storeVars, resp, wpc, pollInterval, batch, idx, ctxDone, co, wd, gb, auth>>

\* A second of the time.Sleep passes; the sleep does not watch ctx.
SleepTick ==
    /\ wpc = "sleep"
    /\ sleepLeft > 0
    /\ sleepLeft' = sleepLeft - 1
    /\ UNCHANGED <<storeVars, resp, wpc, pollInterval, batch, idx, ctxDone, co, wd, gb, auth>>

\* Mutant: processOrder returns without sleeping.
WorkerWake_Early ==
    /\ wpc = "sleep"
    /\ NextItem
    /\ UNCHANGED <<storeVars, resp, pollInterval, sleepLeft, ctxDone, co, wd, gb, auth>>

\* processOrder: the sleep is over, return.
WorkerWake ==
    /\ wpc = "sleep"
    /\ sleepLeft = 0
    /\ NextItem
    /\ UNCHANGED <<storeVars, resp, pollInterval, sleepLeft, ctxDone, co, wd, gb, auth>>

\* Mutant: an unknown order is written off as INVALID.
ProviderNoContent_MarksInvalid ==
    /\ wpc = "call"
    /\ \E r \in Arrived({HdrAbsent}) :
         GetOrderInfo(r).err = "nil" /\ GetOrderInfo(r).info = Null
    /\ orders' = UpdateStatus(batch[idx], StatusInvalid)
    /\ NextItem
    /\ resp' = NoResp
    /\ UNCHANGED <<withdrawals, pollInterval, sleepLeft, ctxDone, co, wd, gb, auth>>

\* processOrder: GetOrderInfo returned nil, nil (204 No Content).
ProviderNoContent ==
    /\ wpc = "call"
    /\ \E r \in Arrived({HdrAbsent}) :
         GetOrderInfo(r).err = "nil" /\ GetOrderInfo(r).info = Null
    /\ NextItem
    /\ resp' = NoResp
    /\ UNCHANGED <<storeVars, pollInterval, sleepLeft, ctxDone, co, wd, gb, auth>>

\* Mutant: REGISTERED is not in the first case of the switch.
ApplyStatus_RegisteredIgnored(orderID, status, accrual) ==
    IF status = StatusProcessing
    THEN UpdateStatus(orderID, StatusProcessing)
    ELSE IF status = StatusInvalid
    THEN UpdateStatus(orderID, StatusInvalid)
    ELSE IF status = StatusProcessed
    THEN UpdateStatusWithAccrual(orderID, StatusProcessed,
                                 IF accrual = Null THEN 0 ELSE accrual[1])
    ELSE orders

\* Mutant: processed without an accrual writes the status alone.
ApplyStatus_NilAccrualKept(orderID, status, accrual) ==
    IF status \in {StatusRegistered, StatusProcessing}
    THEN UpdateStatus(orderID, StatusProcessing)
    ELSE IF status = StatusInvalid
    THEN UpdateStatus(orderID, StatusInvalid)
    ELSE IF status = StatusProcessed
    THEN IF accrual = Null
         THEN UpdateStatus(orderID, StatusProcessed)
         ELSE UpdateStatusWithAccrual(orderID, StatusProcessed, accrual[1])
    ELSE orders

\* processOrder: the switch on info.Status, as the orders table after its write.
ApplyStatus(orderID, status, accrual) ==
    IF status \in {StatusRegistered, StatusProcessing}
    THEN UpdateStatus(orderID, StatusProcessing)
    ELSE IF status = StatusInvalid
    THEN UpdateStatus(orderID, StatusInvalid)
    ELSE IF status = StatusProcessed
    THEN UpdateStatusWithAccrual(orderID, StatusProcessed,
                                 IF accrual = Null THEN 0 ELSE accrual[1])
    ELSE orders

\* processOrder: GetOrderInfo returned an OrderAccrual; the store write it leads
\* to succeeds, or fails and is logged.
ProviderStatus ==
    /\ wpc = "call"
    /\ \E r \in Arrived({HdrAbsent}) :
         /\ GetOrderInfo(r).info # Null
         /\ LET st  == GetOrderInfo(r).info[1].status
                acc == GetOrderInfo(r).info[1].accrual
            IN  \/ /\ orders' = ApplyStatus(batch[idx], st, acc)
                   /\ gb' = IF orders' = orders THEN gb ELSE GbAfterWrite
                \/ /\ st # StatusOther
                   /\ UNCHANGED <<orders, gb>>
    /\ NextItem
    /\ resp' = NoResp
    /\ UNCHANGED <<withdrawals, pollInterval, sleepLeft, ctxDone, co, wd, auth>>

\* The worker's steps while its context is live.
WorkerRunNext(headers) ==
    \/ WorkerPoll
    \/ WorkerQuery
    \/ ProviderError
    \/ ProviderRateLimited(headers)
    \/ SleepTick
    \/ WorkerWake
    \/ ProviderNoContent
    \/ ProviderStatus

WorkerNext(headers) ==
    \/ WorkerWaitCancelled
    \/ WorkerItemCancelled
    \/ WorkerRunNext(headers)

\* ----------------------------------------------------------------- ledger

\* Mutant: the user filter is dropped from the query.
AccruedRows_AnyUser(userID) ==
    SelectSeq(orders, LAMBDA o : o.status = StatusProcessed)

\* The rows GetAccrued sums: WHERE user_id = $1 AND status = 'PROCESSED'.
AccruedRows(userID) ==
    SelectSeq(orders, LAMBDA o : o.user = userID /\ o.status = StatusProcessed)

\* SUM(accrual): NULLs are skipped.
RECURSIVE SumAccrual(_)
SumAccrual(rows) ==
    IF rows = <<>> THEN 0
    ELSE (IF Head(rows).accrual = Null THEN 0 ELSE Head(rows).accrual[1])
         + SumAccrual(Tail(rows))

\* BalanceRepository.GetAccrued / GetAccruedInTx: COALESCE(SUM(accrual), 0).
GetAccrued(userID) == SumAccrual(AccruedRows(userID))

\* Mutant: the user filter is dropped from the query.
WithdrawnRows_AnyUser(userID) == withdrawals

\* The rows GetWithdrawn sums: WHERE user_id = $1.
WithdrawnRows(userID) == SelectSeq(withdrawals, LAMBDA w : w.user = userID)

RECURSIVE SumSum(_)
SumSum(rows) == IF rows = <<>> THEN 0 ELSE Head(rows).sum + SumSum(Tail(rows))

\* BalanceRepository.GetWithdrawn / GetWithdrawnInTx: COALESCE(SUM(sum), 0).
GetWithdrawn(userID) == SumSum(WithdrawnRows(userID))

\* ---------------------------------------------------------------- Withdraw

WdIdle ==
    [pc |-> "idle", user |-> 1, order |-> NumEmpty, sum |-> 0,
     accrued |-> 0, withdrawn |-> 0, pending |-> <<>>, tx |-> "none", res |-> "none"]

\* Call slots are used once each, in order.
WdCanStart(r) == wd[r].pc = "idle" /\ \A q \in Requests : q < r => wd[q].pc # "idle"

\* Mutant: the label is a foreign key; a label that no order has is refused.
WithdrawValidate_ForeignKey(order, sum) ==
    IF order = NumEmpty \/ sum <= 0 THEN "ErrInvalidInput"
    ELSE IF ~IsValidOrderNumber(order) \/ ~NumberExists(order)
    THEN "ErrInvalidOrderNumber"
    ELSE "ok"

\* BalanceService.Withdraw: the input checks; "ok" lets the call go on.
WithdrawValidate(order, sum) ==
    IF order = NumEmpty \/ sum <= 0 THEN "ErrInvalidInput"
    ELSE IF ~IsValidOrderNumber(order) THEN "ErrInvalidOrderNumber"
    ELSE "ok"

\* The call returns: tx.Rollback() is deferred, the locals go out of scope.
WdReturn(r, tx, res) ==
    [wd EXCEPT ![r].pc = "done", ![r].accrued = 0, ![r].withdrawn = 0,
               ![r].pending = <<>>, ![r].tx = tx, ![r].res = res]

\* BalanceService.Withdraw, up to s.db.BeginTx: the input checks, then the
\* transaction is opened or BeginTx fails.
WithdrawCall(r, labels, sums) ==
    /\ WdCanStart(r)
    /\ \E u \in Users, o \in labels, s \in sums :
         LET call == [wd EXCEPT ![r].user = u, ![r].order = o, ![r].sum = s]
             v == WithdrawValidate(o, s)
         IN  \/ /\ v # "ok"
                /\ wd' = [call EXCEPT ![r].pc = "done", ![r].res = v]
             \/ /\ v = "ok"
                /\ wd' = [call EXCEPT ![r].pc = "accrued", ![r].tx = "open"]
             \/ /\ v = "ok"
                /\ wd' = [call EXCEPT ![r].pc = "done", ![r].res = "begin transaction"]
    /\ UNCHANGED <<storeVars, workerVars, ctxDone, co, gb, auth>>

\* BalanceService.Withdraw: s.balanceRepo.GetAccruedInTx(ctx, tx, userID).
WithdrawGetAccrued(r) ==
    /\ wd[r].pc = "accrued"
    /\ \/ wd' = [wd EXCEPT ![r].pc = "withdrawn", ![r].accrued = GetAccrued(wd[r].user)]
       \/ wd' = WdReturn(r, "rolledback", "get accrued")
    /\ UNCHANGED <<storeVars, workerVars, ctxDone, co, gb, auth>>

\* BalanceService.Withdraw: s.balanceRepo.GetWithdrawnInTx(ctx, tx, userID).
WithdrawGetWithdrawn(r) ==
    /\ wd[r].pc = "withdrawn"
    /\ \/ wd' = [wd EXCEPT ![r].pc = "check", ![r].withdrawn = GetWithdrawn(wd[r].user)]
       \/ wd' = WdReturn(r, "rolledback", "get withdrawn")
    /\ UNCHANGED <<storeVars, workerVars, ctxDone, co, gb, auth>>

\* Mutant: the comparison is off by one.
InsufficientFunds_OffByOne(accrued, withdrawn, sum) == accrued - withdrawn < sum - 1

\* BalanceService.Withdraw: current := accrued - withdrawn; if current < sum.
InsufficientFunds(accrued, withdrawn, sum) == accrued - withdrawn < sum

\* The largest of a set of clock readings, 0 for none.
Latest(S) == IF S = {} THEN 0 ELSE CHOOSE t \in S : \A x \in S : x <= t

\* time.Now() in Withdraw: a reading later than processed_at of every row
\* stored or inserted by an open transaction.
Now ==
    1 + Latest({withdrawals[j].at : j \in DOMAIN withdrawals}
               \cup UNION {{wd[r].pending[j].at : j \in DOMAIN wd[r].pending} :
                            r \in Requests})

\* Mutant: the INSERT runs on the connection pool (Create), outside the
\* transaction, and is committed at once.
CreateInTx_Autocommit(userID, order, sum, processedAt) ==
    [table |-> Append(withdrawals, [user |-> userID, order |-> order, sum |-> sum,
                                    at |-> processedAt]),
     pending |-> <<>>]

\* WithdrawalRepository.CreateInTx: the INSERT runs in the transaction; the
\* row is the transaction's own until Commit.
CreateInTx(userID, order, sum, processedAt) ==
    [table |-> withdrawals,
     pending |-> <<[user |-> userID, order |-> order, sum |-> sum,
                    at |-> processedAt]>>]

\* BalanceService.Withdraw: the sufficiency check, then CreateInTx.
WithdrawCheck(r) ==
    /\ wd[r].pc = "check"
    /\ \/ /\ InsufficientFunds(wd[r].accrued, wd[r].withdrawn, wd[r].sum)
          /\ wd' = WdReturn(r, "rolledback", "ErrInsufficientFunds")
          /\ UNCHANGED withdrawals
       \/ /\ ~InsufficientFunds(wd[r].accrued, wd[r].withdrawn, wd[r].sum)
          /\ LET ins == CreateInTx(wd[r].user, wd[r].order, wd[r].sum, Now)
             IN  /\ withdrawals' = ins.table
                 /\ wd' = [wd EXCEPT ![r].pc = "commit", ![r].pending = ins.pending]
       \/ /\ ~InsufficientFunds(wd[r].accrued, wd[r].withdrawn, wd[r].sum)
          /\ wd' = WdReturn(r, "rolledback", "create withdrawal")
          /\ UNCHANGED withdrawals
    /\ gb' = IF withdrawals' = withdrawals THEN gb ELSE GbAfterWrite
    /\ UNCHANGED <<orders, workerVars, ctxDone, co, auth>>

\* Mutant: the commit replaces the table by the transaction's rows.
Commit_Replace(pending) == pending

\* tx.Commit(): the transaction's rows are appended to the table.
Commit(pending) == withdrawals \o pending

\* BalanceService.Withdraw: tx.Commit() succeeds, or fails and the deferred
\* Rollback discards the transaction.
WithdrawCommit(r) ==
    /\ wd[r].pc = "commit"
    /\ \/ /\ withdrawals' = Commit(wd[r].pending)
          /\ wd' = WdReturn(r, "committed", "ok")
       \/ /\ wd' = WdReturn(r, "rolledback", "commit transaction")
          /\ UNCHANGED withdrawals
    /\ gb' = IF withdrawals' = withdrawals THEN gb ELSE GbAfterWrite
    /\ UNCHANGED <<orders, workerVars, ctxDone, co, auth>>

\* ORDER BY processed_at DESC: the row with the latest reading first.
RECURSIVE OrderByProcessedAtDesc(_)
OrderByProcessedAtDesc(rows) ==
    IF rows = <<>> THEN <<>>
    ELSE LET i == CHOOSE k \in DOMAIN rows :
                      \A j \in DOMAIN rows : rows[j].at <= rows[k].at
             rest == [k \in 1..(Len(rows) - 1) |->
                        IF k < i THEN rows[k] ELSE rows[k + 1]]
         IN  <<rows[i]>> \o OrderByProcessedAtDesc(rest)

\* Mutant: the SELECT has no ORDER BY and returns the rows in table order.
GetByUserID_Unordered(userID) == WithdrawnRows(userID)

\* WithdrawalRepository.GetByUserID: SELECT ... FROM withdrawals
\* WHERE user_id = $1 ORDER BY processed_at DESC.
GetByUserID(userID) == OrderByProcessedAtDesc(WithdrawnRows(userID))

\* BalanceService.ListWithdrawals: the rows of GetByUserID, the store
\* answering.
ListWithdrawals(userID) == GetByUserID(userID)

\* ------------------------------------------------------------ authentication

\* Token strings: none, the tokens issued to users 1 and 2, and a string the
\* JWT service did not issue.
Tokens == {"", "tok1", "tok2", "invalid.token.here"}

\* Authorization headers as strings.Split(authHeader, " ") cuts them; <<>> is
\* the absent header.
AuthHeaders ==
    {<<>>, <<"Bearer", "tok1">>, <<"Bearer", "tok2">>,
     <<"Bearer", "invalid.token.here">>, <<"Bearer">>, <<"Bearer", "">>,
     <<"bearer", "tok1">>, <<"Basic", "tok1">>, <<"Bearer", "tok1", "x">>}

\* The user_id cookie of the legacy server: absent, or present with a value.
UserIDCookies ==
    {[present |-> FALSE, value |-> <<>>]}
    \cup {[present |-> TRUE, value |-> v] :
             v \in {<<>>, <<49>>, <<50>>, <<48>>, <<45, 49>>, <<120>>,
                    <<43, 49>>, <<48, 49>>}}

\* No request is at a wrapper. A request's record holds its credentials and
\* what became of it: the status answered (0: none yet), the user id put in
\* the request context, the user id the protected handler saw.
AuthIdle ==
    [pc |-> "idle", server |-> "none", token |-> "", authorization |-> <<>>,
     cookie |-> [present |-> FALSE, value |-> <<>>],
     status |-> 0, ctxUser |-> Null, seen |-> Null]

\* JWTService.ValidateToken: the user id of a token the service issued, an
\* error for any other string.
ValidateToken(t) ==
    IF t = "tok1" THEN [err |-> FALSE, userID |-> 1]
    ELSE IF t = "tok2" THEN [err |-> FALSE, userID |-> 2]
    ELSE [err |-> TRUE, userID |-> 0]

\* AuthMiddleware.extractToken: the token cookie if it is not empty, else
\* the second part of an Authorization header "Bearer <token>", else "".
extractToken(r) ==
    IF r.token # "" THEN r.token
    ELSE IF /\ r.authorization # <<>>
            /\ Len(r.authorization) = 2
            /\ r.authorization[1] = "Bearer"
    THEN r.authorization[2]
    ELSE ""

\* Mutant: an id of 0 passes.
currentUserID_ZeroPasses(r) ==
    IF ~r.cookie.present THEN [id |-> 0, ok |-> FALSE]
    ELSE IF Atoi(r.cookie.value).err \/ Atoi(r.cookie.value).n < 0
    THEN [id |-> 0, ok |-> FALSE]
    ELSE [id |-> Atoi(r.cookie.value).n, ok |-> TRUE]

\* Server.currentUserID: the user_id cookie parsed by strconv.ParseInt(c.Value,
\* 10, 64), which reads a decimal integer as Atoi does.
currentUserID(r) ==
    IF ~r.cookie.present THEN [id |-> 0, ok |-> FALSE]
    ELSE IF Atoi(r.cookie.value).err \/ Atoi(r.cookie.value).n <= 0
    THEN [id |-> 0, ok |-> FALSE]
    ELSE [id |-> Atoi(r.cookie.value).n, ok |-> TRUE]

\* A request reaches a protected route of the server or of the legacy server.
AuthRequest ==
    /\ auth.pc = "idle"
    /\ \/ \E t \in Tokens, h \in AuthHeaders :
            auth' = [auth EXCEPT !.pc = "wrapper", !.server = "jwt",
                                 !.token = t, !.authorization = h]
       \/ \E c \in UserIDCookies :
            auth' = [auth EXCEPT !.pc = "wrapper", !.server = "legacy", !.cookie = c]
    /\ UNCHANGED <<storeVars, workerVars, ctxDone, co, wd, gb>>

\* AuthMiddleware.WithAuth: 401 without a token or with one ValidateToken
\* refuses, else next.ServeHTTP with the user id in the request context.
WithAuth ==
    /\ auth.pc = "wrapper"
    /\ auth.server = "jwt"
    /\ LET tokenString == extractToken(auth)
       IN  IF tokenString = "" \/ ValidateToken(tokenString).err
           THEN auth' = [auth EXCEPT !.pc = "done", !.status = 401]
           ELSE auth' = [auth EXCEPT !.pc = "handler",
                                     !.ctxUser = Some(ValidateToken(tokenString).userID)]
    /\ UNCHANGED <<storeVars, workerVars, ctxDone, co, wd, gb>>

\* Server.withAuth: 401 unless currentUserID reports ok, else next(w, r).
withAuth ==
    /\ auth.pc = "wrapper"
    /\ auth.server = "legacy"
    /\ IF ~currentUserID(auth).ok
       THEN auth' = [auth EXCEPT !.pc = "done", !.status = 401]
       ELSE auth' = [auth EXCEPT !.pc = "handler"]
    /\ UNCHANGED <<storeVars, workerVars, ctxDone, co, wd, gb>>

\* The protected handler runs: it takes the user id from getUserID(r), in
\* the legacy server from s.currentUserID(r), and answers.
ProtectedHandler ==
    /\ auth.pc = "handler"
    /\ auth' = [auth EXCEPT !.pc = "done", !.status = 200,
                            !.seen = IF auth.server = "jwt"
                                     THEN IF auth.ctxUser = Null THEN Some(0)
                                          ELSE auth.ctxUser
                                     ELSE Some(currentUserID(auth).id)]
    /\ UNCHANGED <<storeVars, workerVars, ctxDone, co, wd, gb>>

AuthNext ==
    \/ AuthRequest
    \/ WithAuth
    \/ withAuth
    \/ ProtectedHandler

\* -------------------------------------------------------------- GetBalance

GbIdle ==
    [pc |-> "idle", user |-> 1, accrued |-> 0, current |-> 0, withdrawn |-> 0,
     res |-> "none", dirty |-> FALSE]

\* BalanceService.GetBalance: the Balance it returns.
BalanceOf(accrued, withdrawn) == [Current |-> accrued - withdrawn, Withdrawn |-> withdrawn]

\* BalanceService.GetBalance, up to s.balanceRepo.GetAccrued(ctx, userID).
GetBalanceCall ==
    /\ gb.pc = "idle"
    /\ \E u \in Users :
         \/ gb' = [gb EXCEPT !.pc = "withdrawn", !.user = u, !.accrued = GetAccrued(u)]
         \/ gb' = [gb EXCEPT !.pc = "done", !.user = u, !.res = "get accrued"]
    /\ UNCHANGED <<storeVars, workerVars, ctxDone, co, wd, auth>>

\* BalanceService.GetBalance: s.balanceRepo.GetWithdrawn(ctx, userID) and the result.
GetBalanceWithdrawn ==
    /\ gb.pc = "withdrawn"
    /\ \/ LET b == BalanceOf(gb.accrued, GetWithdrawn(gb.user))
          IN  gb' = [gb EXCEPT !.pc = "done", !.accrued = 0, !.res = "ok",
                               !.current = b.Current, !.withdrawn = b.Withdrawn]
       \/ gb' = [gb EXCEPT !.pc = "done", !.accrued = 0, !.res = "get withdrawn"]
    /\ UNCHANGED <<storeVars, workerVars, ctxDone, co, wd, auth>>

\* ------------------------------------------------------------------ system

Sums == 0..MaxSum

\* The results with which Withdraw reports a failure of the store.
StoreErrors ==
    {"begin transaction", "get accrued", "get withdrawn", "create withdrawal",
     "commit transaction"}

\* The state after construction: empty tables, no call made, the worker at its
\* first wait.
Init ==
    /\ orders = <<>>
    /\ withdrawals = <<>>
    /\ co = [c \in Creators |-> CoIdle]
    /\ wpc = "wait"
    /\ pollInterval = BaseInterval
    /\ batch = <<>>
    /\ idx = 0
    /\ sleepLeft = 0
    /\ resp = NoResp
    /\ auth = AuthIdle
    /\ ctxDone = FALSE
    /\ wd = [r \in Requests |-> WdIdle]
    /\ gb = GbIdle

CreateOrderNext(cs, numbers) ==
    \/ \E c \in cs : CreateOrderCall(c, numbers)
    \/ \E c \in cs : CreateOrderLookup(c)
    \/ \E c \in cs : CreateOrderInsert(c)

WithdrawNext(rs, labels, sums) ==
    \/ \E r \in rs : WithdrawCall(r, labels, sums)
    \/ \E r \in rs : WithdrawGetAccrued(r)
    \/ \E r \in rs : WithdrawGetWithdrawn(r)
    \/ \E r \in rs : WithdrawCheck(r)
    \/ \E r \in rs : WithdrawCommit(r)

GetBalanceNext ==
    \/ GetBalanceCall
    \/ GetBalanceWithdrawn

\* The whole system.
Next ==
    \/ CreateOrderNext(Creators, OrderNumbers)
    \/ Cancel
    \/ WorkerNext(RetryAfterHeaders)
    \/ WithdrawNext(Requests, Labels, Sums)
    \/ GetBalanceNext
    \/ ProviderReply(RetryAfterHeaders)
    \/ AuthNext

Spec == Init /\ [][Next]_vars

\* The order side: two CreateOrder calls and the worker, which may be cancelled;
\* no ledger call is made.
NextOrders ==
    \/ CreateOrderNext({1, 2}, OrderNumbers)
    \/ Cancel
    \/ WorkerNext(ShortRetryAfter)

SpecOrders == Init /\ [][NextOrders]_vars

\* The state after the first n CreateOrder calls have each created an order
\* (numbers "18" and "26", any owners) and returned.
Stocked(n) ==
    /\ \E u1 \in Users, u2 \in Users :
         LET o1 == [user |-> u1, number |-> Num18, status |-> StatusNew, accrual |-> Null]
             o2 == [user |-> u2, number |-> Num26, status |-> StatusNew, accrual |-> Null]
         IN  /\ orders = IF n = 1 THEN <<o1>> ELSE <<o1, o2>>
             /\ co = [c \in Creators |->
                        IF c = 1
                        THEN [pc |-> "done", user |-> u1, number |-> Num18, res |-> "created"]
                        ELSE IF c = 2 /\ n = 2
                        THEN [pc |-> "done", user |-> u2, number |-> Num26, res |-> "created"]
                        ELSE CoIdle]
    /\ withdrawals = <<>>
    /\ wpc = "wait"
    /\ pollInterval = BaseInterval
    /\ batch = <<>>
    /\ idx = 0
    /\ sleepLeft = 0
    /\ resp = NoResp
    /\ auth = AuthIdle
    /\ ctxDone = FALSE
    /\ wd = [r \in Requests |-> WdIdle]
    /\ gb = GbIdle

\* The ledger under load: one order is in the store, the worker (never
\* cancelled) reconciles it while Withdraw calls run.
InitLedger == Stocked(1)

NextLedger ==
    \/ WorkerRunNext(ShortRetryAfter)
    \/ WithdrawNext(Requests, Labels, Sums)

SpecLedger == InitLedger /\ [][NextLedger]_vars

\* Every writer at once: one order is in the store, a second CreateOrder call
\* runs while the worker (never cancelled) reconciles and two Withdraw calls
\* run.
NextWriters ==
    \/ CreateOrderNext({2}, {Num18, Num26})
    \/ WorkerRunNext(ShortRetryAfter)
    \/ WithdrawNext({1, 2}, {Num18}, {1})

SpecWriters == InitLedger /\ [][NextWriters]_vars

\* The number of the i-th order of the backlog: the three digits of i and the
\* check digit with which IsValidOrderNumber accepts it.
BacklogNumber(i) ==
    LET d == <<48 + (i \div 100), 48 + ((i \div 10) % 10), 48 + (i % 10)>>
    IN  d \o <<CHOOSE c \in 48..57 : IsValidOrderNumber(d \o <<c>>)>>

\* A backlog: batchSize + 1 orders have been submitted and are NEW, their
\* CreateOrder calls have returned, and the worker is at its wait.
InitBacklog ==
    /\ orders = [i \in 1..(batchSize + 1) |->
                   [user |-> 1 + (i % 2), number |-> BacklogNumber(i),
                    status |-> StatusNew, accrual |-> Null]]
    /\ co = [c \in Creators |-> CoIdle]
    /\ withdrawals = <<>>
    /\ wpc = "wait"
    /\ pollInterval = BaseInterval
    /\ batch = <<>>
    /\ idx = 0
    /\ sleepLeft = 0
    /\ resp = NoResp
    /\ auth = AuthIdle
    /\ ctxDone = FALSE
    /\ wd = [r \in Requests |-> WdIdle]
    /\ gb = GbIdle

\* The worker alone, never cancelled, with a provider that answers every
\* query with 204: no order is known to it.
NextBacklog ==
    \/ WorkerPoll
    \/ WorkerQuery
    \/ ProviderNoContent

\* The worker's goroutine keeps running and its calls keep completing.
SpecBacklog == InitBacklog /\ [][NextBacklog]_vars /\ WF_vars(NextBacklog)

\* Balance reads: two orders are in the store, the worker (never cancelled)
\* reconciles them while one Withdraw call and one GetBalance call run.
InitBalance == Stocked(2)

NextBalance ==
    \/ WorkerRunNext(ShortRetryAfter)
    \/ WithdrawNext({1}, {Num18}, {1, MaxSum})
    \/ GetBalanceNext

SpecBalance == InitBalance /\ [][NextBalance]_vars

\* Withdraw calls alone: user 1 holds one order that the worker has accepted,
\* and the worker is back at its wait; only Withdraw calls run, so the accrued
\* totals stay what they are.
InitRace ==
    /\ \E a \in 0..MaxAccrual :
         orders = <<[user |-> 1, number |-> Num18, status |-> StatusProcessed,
                     accrual |-> Some(a)]>>
    /\ co = [c \in Creators |->
               IF c = 1 THEN [pc |-> "done", user |-> 1, number |-> Num18, res |-> "created"]
               ELSE CoIdle]
    /\ withdrawals = <<>>
    /\ wpc = "wait"
    /\ pollInterval = BaseInterval
    /\ batch = <<>>
    /\ idx = 0
    /\ sleepLeft = 0
    /\ resp = NoResp
    /\ auth = AuthIdle
    /\ ctxDone = FALSE
    /\ wd = [r \in Requests |-> WdIdle]
    /\ gb = GbIdle

NextRace == WithdrawNext(Requests, Labels, Sums)

SpecRace == InitRace /\ [][NextRace]_vars

\* The worker alone, with two orders in the store: it polls, queries, is rate
\* limited with any of the Retry-After headers, and may be cancelled.
InitPause == Stocked(2)

NextPause ==
    \/ Cancel
    \/ WorkerNext(RetryAfterHeaders)

SpecPause == InitPause /\ [][NextPause]_vars

\* The bytes of the order numbers given to the checksum: '0', '1', '6', '8',
\* 'a', and 0xD9, 0xA0, which together are the UTF-8 encoding of U+0660
\* (ARABIC-INDIC DIGIT ZERO).
LuhnBytes == {48, 49, 54, 56, 97, 217, 160}

\* Every string of at most MaxLen of those bytes.
LuhnInputs == UNION {[1..n -> LuhnBytes] : n \in 0..MaxLen}

\* The order number check: one CreateOrder call on an empty store, with any of
\* those strings.
NextLuhn == CreateOrderNext({1}, LuhnInputs)

SpecLuhn == Init /\ [][NextLuhn]_vars

\* OrderHandler.CreateOrder: the HTTP status answered for a CreateOrder result.
CreateOrderStatus(res) ==
    CASE res = "ErrInvalidInput"       -> 400
      [] res = "ErrInvalidOrderNumber" -> 422
      [] res = "ErrConflict"           -> 409
      [] res = "created"               -> 202
      [] res = "exists"                -> 200
      [] OTHER                         -> 500

\* The accrual client under the worker: two stored orders, the worker, and
\* every exchange completing as a step of its own.
NextClient ==
    \/ Cancel
    \/ ProviderReply(RetryAfterHeaders)
    \/ WorkerNext(RetryAfterHeaders)

SpecClient == InitPause /\ [][NextClient]_vars

\* The authentication wrappers alone.
SpecAuth == Init /\ [][AuthNext]_vars

\* The worker goroutine keeps being scheduled and time passes: a step of the
\* worker that stays possible is eventually taken.
SpecStop ==
    InitPause /\ [][NextClient]_vars /\ WF_vars(WorkerNext(RetryAfterHeaders))

\* Withdraw by reference: each user has one PROCESSED order, and Withdraw is
\* called with labels that are user 1's order number, user 2's order number,
\* and the number 34 that no order has.
InitRefs ==
    /\ \E a \in 0..MaxAccrual, b \in 0..MaxAccrual :
         orders = <<[user |-> 1, number |-> Num18, status |-> StatusProcessed,
                     accrual |-> Some(a)],
                    [user |-> 2, number |-> Num26, status |-> StatusProcessed,
                     accrual |-> Some(b)]>>
    /\ co = [c \in Creators |->
               IF c = 1 THEN [pc |-> "done", user |-> 1, number |-> Num18, res |-> "created"]
               ELSE IF c = 2
               THEN [pc |-> "done", user |-> 2, number |-> Num26, res |-> "created"]
               ELSE CoIdle]
    /\ withdrawals = <<>>
    /\ wpc = "wait"
    /\ pollInterval = BaseInterval
    /\ batch = <<>>
    /\ idx = 0
    /\ sleepLeft = 0
    /\ resp = NoResp
    /\ auth = AuthIdle
    /\ ctxDone = FALSE
    /\ wd = [r \in Requests |-> WdIdle]
    /\ gb = GbIdle

NextRefs == WithdrawNext({1, 2}, {Num18, Num26, <<51, 52>>}, {1, MaxSum})

SpecRefs == InitRefs /\ [][NextRefs]_vars

\* Submissions alone: CreateOrder calls on an empty store, no worker.
NextSubmit == CreateOrderNext(Creators, OrderNumbers)

SpecSubmit == Init /\ [][NextSubmit]_vars

\* Withdraw labels: one Withdraw call against an accepted order, with any of
\* those strings as its label.
NextLabels == WithdrawNext({1}, LuhnInputs, Sums)

SpecLabels == InitRace /\ [][NextLabels]_vars

\* Every string of at most MaxLen of the characters '0'..'9'.
DigitInputs == UNION {[1..n -> 48..57] : n \in 0..MaxLen}

\* Digit strings: one CreateOrder call on an empty store, with any of them.
NextDigits == CreateOrderNext({1}, DigitInputs)

SpecDigits == Init /\ [][NextDigits]_vars

\* ------------------------------------------------------------ properties

Terminal == {StatusInvalid, StatusProcessed}

\* The sum of f over the finite set S.
RECURSIVE SetSum(_, _)
SetSum(S, f) ==
    IF S = {} THEN 0
    ELSE LET x == CHOOSE y \in S : TRUE
         IN  f[x] + SetSum(S \ {x}, f)

\* Section 3 of the design: the sum of the accrual amounts of the user's
\* Accepted orders.
AcceptedSum(u) ==
    SetSum({i \in OrderIds : orders[i].user = u /\ orders[i].status = StatusProcessed},
           [i \in OrderIds |-> IF orders[i].accrual = Null THEN 0 ELSE orders[i].accrual[1]])

\* Section 3 of the design: the sum of the amounts of the user's withdrawals.
WithdrawnSum(u) ==
    SetSum({j \in DOMAIN withdrawals : withdrawals[j].user = u},
           [j \in DOMAIN withdrawals |-> withdrawals[j].sum])

\* Section 3 of the design: the derived balance, current.
DerivedBalance(u) == AcceptedSum(u) - WithdrawnSum(u)

\* The characters of a string: its UTF-8 decoding, U+FFFD for a byte that
\* begins no one- or two-byte sequence.
RECURSIVE Runes(_)
Runes(s) ==
    IF s = <<>> THEN <<>>
    ELSE IF s[1] < 128 THEN <<s[1]>> \o Runes(Tail(s))
    ELSE IF s[1] \in 194..223 /\ Len(s) >= 2 /\ s[2] \in 128..191
         THEN <<(s[1] - 192) * 64 + (s[2] - 128)>> \o Runes(Tail(Tail(s)))
    ELSE <<65533>> \o Runes(Tail(s))

\* The value of a character that is a decimal digit ('0'..'9', or a digit of
\* another script, the wider reading of "decimal digit"), -1 for any other.
DecimalDigitValue(r) ==
    IF r \in 48..57 THEN r - 48
    ELSE IF r \in 1632..1641 THEN r - 1632
    ELSE IF r \in 1776..1785 THEN r - 1776
    ELSE IF r \in 1984..1993 THEN r - 1984
    ELSE 0 - 1

\* Section 4.1 of the design: the sum of the digits ds[1..i], every second one
\* counted from the rightmost doubled and reduced by 9 when above 9.
RECURSIVE ChecksumSum(_, _, _)
ChecksumSum(ds, i, double) ==
    IF i < 1 THEN 0
    ELSE LET d == DecimalDigitValue(ds[i])
         IN  (IF double THEN (IF 2 * d > 9 THEN 2 * d - 9 ELSE 2 * d) ELSE d)
             + ChecksumSum(ds, i - 1, ~double)

\* Section 4.1 of the design: non-empty, every character a decimal digit, the
\* checksum divisible by 10.
ValidOrderIdentifier(s) ==
    LET ds == Runes(s)
    IN  /\ ds # <<>>
        /\ \A i \in DOMAIN ds : DecimalDigitValue(ds[i]) >= 0
        /\ ChecksumSum(ds, Len(ds), FALSE) % 10 = 0

\* The string consists of the characters '0'..'9' only.
AsciiDigits(s) == \A i \in DOMAIN s : s[i] \in 48..57

\* C1: in every reachable state, for every user, the accrual amounts of the
\* user's Accepted orders minus the user's withdrawal amounts is at least 0.
C1_BalanceNonNegative == \A u \in Users : DerivedBalance(u) >= 0

\* C2: when two Withdraw calls of one user have both returned without a store
\* error, and the balance (here the accrued total, which no step of SpecRace
\* changes, and which no earlier withdrawal has reduced) covers either amount
\* alone but not both, exactly one has succeeded and the other has failed with
\* ErrInsufficientFunds.
C2_ExactlyOneSucceeds ==
    \A r1 \in Requests, r2 \in Requests :
        ( /\ r1 < r2
          /\ wd[r1].pc = "done" /\ wd[r2].pc = "done"
          /\ wd[r1].user = wd[r2].user
          /\ {wd[r1].res, wd[r2].res} \subseteq {"ok", "ErrInsufficientFunds"}
          /\ \A q \in Requests \ {r1, r2} : wd[q].pc = "idle"
          /\ wd[r1].sum <= AcceptedSum(wd[r1].user)
          /\ wd[r2].sum <= AcceptedSum(wd[r1].user)
          /\ wd[r1].sum + wd[r2].sum > AcceptedSum(wd[r1].user) )
        => {wd[r1].res, wd[r2].res} = {"ok", "ErrInsufficientFunds"}

\* C3: a Withdraw call whose computed balance, accrued minus withdrawn, is
\* less than the amount returns ErrInsufficientFunds, its transaction rolled
\* back, and that step leaves the orders and the withdrawals as they were.
C3_InsufficientFundsAborts ==
    [][\A r \in Requests :
         ( /\ wd[r].pc = "check"
           /\ wd[r].accrued - wd[r].withdrawn < wd[r].sum
           /\ wd'[r] # wd[r] )
         => /\ wd'[r].pc = "done"
            /\ wd'[r].res = "ErrInsufficientFunds"
            /\ wd'[r].tx = "rolledback"
            /\ orders' = orders
            /\ withdrawals' = withdrawals
            /\ DerivedBalance(wd[r].user)' = DerivedBalance(wd[r].user)]_vars

\* C3 witness: a call was refused for insufficient funds although the user has
\* accrued funds.
C3_Witness ==
    \E r \in Requests :
        /\ wd[r].res = "ErrInsufficientFunds"
        /\ wd[r].tx = "rolledback"
        /\ AcceptedSum(wd[r].user) > 0
        /\ wd[r].sum > DerivedBalance(wd[r].user)
        /\ withdrawals = <<>>

\* C4: a Withdraw that succeeds appends exactly its record, so that the
\* balance goes down and withdrawn goes up by the amount; a call whose amount
\* is at most the current balance is not refused; after a withdrawal of the
\* whole current balance the balance is 0; and no withdrawal succeeds while
\* the balance does not cover it.
C4_SuccessfulWithdraw ==
    [][\A r \in Requests :
         LET u == wd[r].user
             current == wd[r].accrued - wd[r].withdrawn
         IN  /\ (wd[r].pc = "check" /\ current >= wd[r].sum /\ wd'[r] # wd[r])
                    => wd'[r].res # "ErrInsufficientFunds"
             /\ (wd[r].pc = "commit" /\ wd'[r].res = "ok")
                    => /\ \E t \in 1..(2 * MaxWithdrawCalls) :
                            withdrawals' =
                              Append(withdrawals,
                                     [user |-> u, order |-> wd[r].order,
                                      sum |-> wd[r].sum, at |-> t])
                       /\ orders' = orders
                       /\ DerivedBalance(u)' = DerivedBalance(u) - wd[r].sum
                       /\ WithdrawnSum(u)' = WithdrawnSum(u) + wd[r].sum
                       /\ (wd[r].sum = current => DerivedBalance(u)' = 0)
                       /\ DerivedBalance(u) >= wd[r].sum]_vars

\* C5: a Withdraw call with an empty label or an amount <= 0 returns
\* ErrInvalidInput, one with a non-empty label that is not a valid order
\* identifier (not all decimal digits, or with a checksum not divisible by 10)
\* returns ErrInvalidOrderNumber; either way no transaction was begun and the
\* step leaves the store as it was.
C5_ValidationFirst ==
    [][\A r \in Requests :
         (wd[r].pc = "idle" /\ wd'[r].pc # "idle")
         => LET o == wd'[r].order
                s == wd'[r].sum
            IN  /\ (o = NumEmpty \/ s <= 0)
                      => /\ wd'[r].pc = "done"
                         /\ wd'[r].res = "ErrInvalidInput"
                         /\ wd'[r].tx = "none"
                         /\ UNCHANGED storeVars
                /\ (o # NumEmpty /\ s > 0 /\ ~ValidOrderIdentifier(o))
                      => /\ wd'[r].pc = "done"
                         /\ wd'[r].res = "ErrInvalidOrderNumber"
                         /\ wd'[r].tx = "none"
                         /\ UNCHANGED storeVars]_vars

\* C6: the INSERT of a Withdraw call is not in the store before the call
\* commits, and a call that fails at the INSERT or at the commit returns that
\* error and leaves the orders and the withdrawals, hence the balance, as they
\* were.
C6_AllOrNothing ==
    [][\A r \in Requests :
         /\ (wd[r].pc = "check" /\ wd'[r].pc = "commit") => UNCHANGED storeVars
         /\ (wd[r].pc \in {"check", "commit"} /\ wd'[r].pc = "done" /\ wd'[r].res # "ok")
                => /\ wd'[r].res \in {"ErrInsufficientFunds", "create withdrawal",
                                      "commit transaction"}
                   /\ wd'[r].tx = "rolledback"
                   /\ UNCHANGED storeVars
                   /\ DerivedBalance(wd[r].user)' = DerivedBalance(wd[r].user)]_vars

\* C6 witness: a call failed at its commit, and the store holds no withdrawal.
C6_Witness ==
    \E r \in Requests :
        /\ wd[r].res = "commit transaction"
        /\ wd[r].tx = "rolledback"
        /\ withdrawals = <<>>

\* C7: a GetBalance call that returned, with no write to the store since it
\* started, returned withdrawn = the sum of the user's withdrawals and current =
\* the sum of the accruals of the user's Accepted orders minus withdrawn.
C7_GetBalance ==
    (gb.pc = "done" /\ gb.res = "ok" /\ ~gb.dirty)
    => /\ gb.withdrawn = WithdrawnSum(gb.user)
       /\ gb.current = AcceptedSum(gb.user) - WithdrawnSum(gb.user)
       /\ gb.current + gb.withdrawn = AcceptedSum(gb.user)

\* C7 witness: such a call returned a positive withdrawn while another user
\* holds an Accepted order with a positive accrual.
C7_Witness ==
    /\ gb.pc = "done" /\ gb.res = "ok" /\ ~gb.dirty
    /\ gb.withdrawn > 0
    /\ \E i \in OrderIds :
         /\ orders[i].user # gb.user
         /\ orders[i].status = StatusProcessed
         /\ orders[i].accrual # Null
         /\ orders[i].accrual[1] > 0

\* C8: in every reachable state every order has an accrual amount if and only
\* if its status is PROCESSED.
C8_AccrualIffAccepted ==
    \A i \in OrderIds : (orders[i].accrual # Null) <=> (orders[i].status = StatusProcessed)

\* C8 witness: the worker was cancelled and has stopped with one order
\* Accepted and another still pending.
C8_Witness ==
    /\ ctxDone
    /\ wpc = "stopped"
    /\ \E i \in OrderIds, j \in OrderIds :
         /\ orders[i].status = StatusProcessed /\ orders[i].accrual # Null
         /\ orders[j].status \in Pending

\* C9: every change of an order is NEW -> PROCESSING, INVALID or PROCESSED, or
\* PROCESSING -> INVALID or PROCESSED; an order that is INVALID or PROCESSED
\* never changes again, no order returns to NEW, and no order is removed.
C9_ForwardOnly ==
    [][/\ Len(orders') >= Len(orders)
       /\ \A i \in OrderIds :
            \/ orders'[i] = orders[i]
            \/ /\ orders[i].status = StatusNew
               /\ orders'[i].status \in {StatusProcessing, StatusInvalid, StatusProcessed}
            \/ /\ orders[i].status = StatusProcessing
               /\ orders'[i].status \in {StatusInvalid, StatusProcessed}]_vars

\* C9 witness: one order has been moved to PROCESSING and another is terminal
\* while the worker is in a later query.
C9_Witness ==
    /\ wpc = "call"
    /\ \E i \in OrderIds, j \in OrderIds :
         /\ orders[i].status = StatusProcessing
         /\ orders[j].status \in Terminal
         /\ batch[idx] = i

\* C10: whenever the worker has a query at the provider in flight, the order
\* queried is in status NEW or PROCESSING.
C10_NoQueryOnceTerminal ==
    wpc = "call" => orders[batch[idx]].status \in Pending

\* C10 witness: a query is in flight for the second order of a batch whose
\* first order has just become terminal.
C10_Witness ==
    /\ wpc = "call"
    /\ idx = 2
    /\ orders[batch[1]].status \in Terminal

\* The results with which CreateOrder reports a failure of the store itself.
CreateStoreErrors == {"get order by number", "create order"}

\* C11: a CreateOrder call that has returned without a store failure, for a
\* valid number whose order belongs to the caller, returned Created=true or
\* Created=false, never an error; and the number has one order.
C11_IdempotentForOwner ==
    \A c \in Creators :
        ( /\ co[c].pc = "done"
          /\ IsValidOrderNumber(co[c].number)
          /\ co[c].res \notin CreateStoreErrors
          /\ NumberExists(co[c].number)
          /\ GetByNumber(co[c].number) = co[c].user )
        => /\ co[c].res \in {"created", "exists"}
           /\ Cardinality({i \in OrderIds : orders[i].number = co[c].number}) = 1

\* C12: a CreateOrder call that has returned without a store failure, for a
\* valid number whose order belongs to another user, returned ErrConflict.
C12_ConflictForOtherUser ==
    \A c \in Creators :
        ( /\ co[c].pc = "done"
          /\ IsValidOrderNumber(co[c].number)
          /\ co[c].res \notin CreateStoreErrors
          /\ NumberExists(co[c].number)
          /\ GetByNumber(co[c].number) # co[c].user )
        => co[c].res = "ErrConflict"

\* C13: in every state no two orders have the same number, and every step
\* keeps every order there is, with its owner and its number.
C13_UniqueNumberFixedOwner ==
    /\ [](\A i \in OrderIds, j \in OrderIds :
            orders[i].number = orders[j].number => i = j)
    /\ [][/\ Len(orders') >= Len(orders)
          /\ \A i \in OrderIds :
               /\ orders'[i].user = orders[i].user
               /\ orders'[i].number = orders[i].number]_vars

\* C13 witness: an order is stored and already updated by the worker, and the
\* INSERT of another user's submission of its number was turned away.
C13_Witness ==
    /\ Len(orders) = 1
    /\ orders[1].status # StatusNew
    /\ \E c \in Creators :
         /\ co[c].pc = "done"
         /\ co[c].res = "create order: unique violation"
         /\ co[c].number = orders[1].number
         /\ co[c].user # orders[1].user

\* C14: the poll interval is always one of 1, 2, 4, 8, 10 seconds, hence
\* between the base and the ceiling; and a step that changes it either follows
\* a poll that found no pending order, and then doubles it up to the ceiling,
\* never lowering it, or follows a poll that found a batch.
C14_BackoffBounded ==
    /\ [](pollInterval \in {1, 2, 4, 8, 10}
          /\ BaseInterval <= pollInterval /\ pollInterval <= MaxInterval)
    /\ [][pollInterval' # pollInterval
            => \/ /\ wpc = "wait" /\ wpc' = "wait"
                  /\ GetPendingOrders(batchSize) = <<>>
                  /\ pollInterval' = Min(2 * pollInterval, 10)
                  /\ pollInterval' > pollInterval
               \/ wpc = "wait" /\ wpc' = "item"]_vars

\* C14 witness: with orders in the store, all of them terminal, the worker has
\* backed off to the ceiling.
C14_Witness ==
    /\ wpc = "wait"
    /\ ~ctxDone
    /\ pollInterval = MaxInterval
    /\ orders # <<>>
    /\ \A i \in OrderIds : orders[i].status \in Terminal

\* C15: the step in which a poll finds a batch sets the interval to the base,
\* whatever it was; it is the base all through the batch, and when the worker
\* is back at its wait after the batch, whatever the orders' outcomes were.
C15_ResetOnWork ==
    /\ [](wpc \in {"item", "call", "sleep"} => pollInterval = BaseInterval)
    /\ [][/\ (wpc = "wait" /\ wpc' = "item") => pollInterval' = BaseInterval
          /\ (wpc \in {"item", "call", "sleep"} /\ wpc' = "wait")
                => pollInterval' = BaseInterval]_vars

\* C15 witness: the worker is back at its wait with the base interval while an
\* order a terminal order was submitted before is still NEW: the backlog of the
\* last batch ended without a write.
C15_Witness ==
    /\ wpc = "wait"
    /\ ~ctxDone
    /\ pollInterval = BaseInterval
    /\ Len(orders) = 2
    /\ orders[1].status \in Terminal
    /\ orders[2].status = StatusNew

C17_NoNewWorkAfterCancel ==
    [][ctxDone =>
         /\ (wpc' = "call" => wpc = "call")
         /\ (batch' # batch => batch' = <<>>)
         /\ \A i \in OrderIds :
              orders'[i] # orders[i] => (wpc = "call" /\ i = batch[idx])
         /\ (wpc = "item" /\ wpc' # "item") => wpc' = "stopped"
         /\ (wpc = "wait" /\ wpc' # "wait") => wpc' = "stopped"]_vars

\* C17 witness: the worker has returned after the cancellation with the first
\* order terminal and the second, of the same batch, still NEW.
C17_Witness ==
    /\ ctxDone
    /\ wpc = "stopped"
    /\ orders[1].status \in Terminal
    /\ orders[2].status = StatusNew

\* C18: whenever the context is cancelled while the worker is suspended, the
\* worker can leave the suspension at once: return from its wait, have the
\* provider call fail, or return from the rate-limit pause.
C18_SuspensionsInterruptible ==
    ctxDone =>
        /\ (wpc = "wait" => ENABLED WorkerWaitCancelled)
        /\ (wpc = "call" => ENABLED ProviderError)
        /\ (wpc = "sleep" => ENABLED WorkerWake)

\* C19: the worker has returned only if its context was cancelled.
C19_StopsOnlyOnCancel == wpc = "stopped" => ctxDone

\* C19 witness: the first order of a batch is still NEW after its processing
\* (provider error, unknown order, rate limit or failed write) and the worker,
\* not cancelled, goes on to the second.
C19_Witness ==
    /\ ~ctxDone
    /\ wpc = "item"
    /\ idx = 2
    /\ orders[batch[1]].status = StatusNew

\* C20: for every order number a CreateOrder call was made with: a number
\* that is non-empty, all '0'..'9' and has a checksum divisible by 10 is valid
\* for IsValidOrderNumber and passed the call's input checks; and a number that
\* is valid for IsValidOrderNumber, or passed the input checks, is non-empty,
\* all decimal digits (of any script) and has a checksum of its digits
\* divisible by 10.
C20_ChecksumAsSpecified ==
    \A c \in Creators :
        co[c].pc # "idle"
        => LET n == co[c].number
               passed == co[c].res \notin {"ErrInvalidInput", "ErrInvalidOrderNumber"}
           IN  /\ (AsciiDigits(n) /\ ValidOrderIdentifier(n))
                      => (IsValidOrderNumber(n) /\ passed)
               /\ (IsValidOrderNumber(n) \/ passed) => ValidOrderIdentifier(n)

\* C21: for every digit string a CreateOrder call was made with and that
\* IsValidOrderNumber accepts (the call passed its input checks), the string
\* with any one digit replaced by any other digit is rejected by
\* IsValidOrderNumber.
C21_SingleDigitChangeRejected ==
    \A c \in Creators :
        LET n == co[c].number
        IN  ( /\ co[c].pc # "idle"
              /\ AsciiDigits(n)
              /\ IsValidOrderNumber(n) )
            => /\ co[c].res \notin {"ErrInvalidInput", "ErrInvalidOrderNumber"}
               /\ \A i \in DOMAIN n : \A d \in (48..57) \ {n[i]} :
                    ~IsValidOrderNumber([n EXCEPT ![i] = d])

\* C21 witness: a call with an accepted number of three digits, not all zero,
\* has gone on to the store.
C21_Witness ==
    \E c \in Creators :
        /\ co[c].pc = "lookup"
        /\ Len(co[c].number) = 3
        /\ IsValidOrderNumber(co[c].number)
        /\ co[c].number[1] # 48

\* C22: a CreateOrder call with an empty number returns ErrInvalidInput, one
\* with a non-empty number that is not a valid order identifier (not all
\* decimal digits, or with a checksum not divisible by 10) returns
\* ErrInvalidOrderNumber; either way the call returns in that step, without a
\* lookup or an insert, and the store is as it was.
C22_CreateValidationFirst ==
    [][\A c \in Creators :
         (co[c].pc = "idle" /\ co'[c].pc # "idle")
         => LET n == co'[c].number
            IN  /\ n = NumEmpty
                      => /\ co'[c].pc = "done"
                         /\ co'[c].res = "ErrInvalidInput"
                         /\ UNCHANGED storeVars
                /\ (n # NumEmpty /\ ~ValidOrderIdentifier(n))
                      => /\ co'[c].pc = "done"
                         /\ co'[c].res = "ErrInvalidOrderNumber"
                         /\ UNCHANGED storeVars]_vars

\* C23: a CreateOrder call that reports Created=true has, in that step,
\* appended exactly one order, for a number no order had, owned by the caller,
\* in status NEW with no accrual; an insert for a number no order has, the
\* store not failing, reports Created=true; a call whose lookup finds the
\* caller's own order reports Created=false and changes nothing; and the
\* orders change in no other step of a CreateOrder call.
C23_FirstSubmissionCreates ==
    [][\A c \in Creators :
         /\ (co[c].pc = "insert" /\ co'[c].res = "created")
                => /\ ~NumberExists(co[c].number)
                   /\ orders' = Append(orders, [user |-> co[c].user,
                                                number |-> co[c].number,
                                                status |-> StatusNew,
                                                accrual |-> Null])
         /\ ( /\ co[c].pc = "insert" /\ co'[c].pc = "done"
              /\ ~NumberExists(co[c].number)
              /\ co'[c].res \notin CreateStoreErrors )
                => (co'[c].res = "created" /\ CreateOrderStatus(co'[c].res) = 202)
         /\ ( /\ co[c].pc = "lookup" /\ co'[c].pc = "done"
              /\ co'[c].res \notin CreateStoreErrors
              /\ NumberExists(co[c].number)
              /\ GetByNumber(co[c].number) = co[c].user )
                => /\ co'[c].res = "exists" /\ orders' = orders
                   /\ CreateOrderStatus(co'[c].res) = 200
         /\ (co'[c] # co[c] /\ co'[c].res # "created") => orders' = orders]_vars

\* C23 witness: a user's first submission created the order and the same
\* user's second submission of the number reported that it exists.
C23_Witness ==
    \E c \in Creators, d \in Creators :
        /\ co[c].res = "created" /\ co[d].res = "exists"
        /\ co[c].user = co[d].user /\ co[c].number = co[d].number
        /\ Len(orders) = 1
        /\ orders[1] = [user |-> co[c].user, number |-> co[c].number,
                        status |-> StatusNew, accrual |-> Null]

\* C24: ListWithdrawals(user) holds every withdrawal of the user once and no
\* other row, each row's creation time is at least that of the row after it,
\* and for a user without withdrawals it is the empty list.
C24_ListWithdrawals ==
    \A u \in Users :
        LET l    == ListWithdrawals(u)
            mine == {j \in DOMAIN withdrawals : withdrawals[j].user = u}
        IN  /\ Len(l) = Cardinality(mine)
            /\ {l[i] : i \in DOMAIN l} = {withdrawals[j] : j \in mine}
            /\ \A i \in DOMAIN l : \A k \in DOMAIN l :
                   i < k => l[i].at >= l[k].at
            /\ (mine = {}) => l = <<>>

\* C24 witness: a user has two withdrawals, stored with the earlier one
\* first, and the other user has none.
C24_Witness ==
    \E u \in Users, v \in Users :
        /\ u # v
        /\ Len(withdrawals) = 2
        /\ withdrawals[1].user = u /\ withdrawals[2].user = u
        /\ withdrawals[1].at < withdrawals[2].at
        /\ ListWithdrawals(u) = <<withdrawals[2], withdrawals[1]>>
        /\ ListWithdrawals(v) = <<>>

\* The number a string of '0'..'9' writes in decimal; a number of 2^31 - 1 or
\* more is given as 2^31 - 1.
RECURSIVE SecondsValue(_)
SecondsValue(ds) ==
    IF ds = <<>> THEN 0
    ELSE LET front == SecondsValue(SubSeq(ds, 1, Len(ds) - 1))
         IN  IF front >= 214748364 THEN 2147483647
             ELSE front * 10 + (ds[Len(ds)] - 48)

\* The integer a string writes in decimal, with an optional sign, or Null:
\* the Retry-After header value in seconds, the id a user_id cookie holds.
DecimalInteger(s) ==
    LET signed == s # <<>> /\ s[1] \in {43, 45}
        ds     == IF signed THEN Tail(s) ELSE s
    IN  IF ds = <<>> \/ ~AsciiDigits(ds) THEN Null
        ELSE Some(IF s[1] = 45 THEN 0 - SecondsValue(ds) ELSE SecondsValue(ds))

\* C25: whenever processOrder acts on a completed exchange, 200 with a body
\* that decodes gave exactly the decoded status and accrual with no error;
\* 204 gave no result and no error, and no order changes; 429 gave a
\* RateLimitError whose RetryAfter is the Retry-After header value in seconds
\* when that is a positive integer (and, as C39 has it, 60 seconds
\* otherwise), and the worker pauses for it; a failed exchange, a 200 whose body does not decode
\* and any other status gave an error that is no RateLimitError, and no
\* order changes. Only a RateLimitError pauses the worker.
C25_Classified ==
    [][(wpc = "call" /\ resp # NoResp /\ resp' = NoResp) =>
         LET g   == GetOrderInfo(resp)
             sec == DecimalInteger(resp.header)
         IN  /\ (~resp.failed /\ resp.code = 200 /\ resp.decodes)
                    => /\ g.err = "nil"
                       /\ g.info = Some([status |-> resp.status,
                                         accrual |-> resp.accrual])
                       /\ wpc' # "sleep"
             /\ (~resp.failed /\ resp.code = 204)
                    => /\ g.err = "nil" /\ g.info = Null
                       /\ orders' = orders /\ wpc' # "sleep"
             /\ (~resp.failed /\ resp.code = 429)
                    => /\ g.err = "RateLimitError" /\ g.info = Null
                       /\ g.retryAfter = IF sec # Null /\ sec[1] > 0 THEN sec[1] ELSE 60
                       /\ orders' = orders
                       /\ wpc' = "sleep" /\ sleepLeft' = g.retryAfter
             /\ ( \/ resp.failed
                  \/ resp.code \notin {200, 204, 429}
                  \/ (resp.code = 200 /\ ~resp.decodes) )
                    => /\ g.err \notin {"nil", "RateLimitError"} /\ g.info = Null
                       /\ orders' = orders /\ wpc' # "sleep"]_vars

\* The tokens a request carries: its token cookie and the token of an
\* Authorization header of the form "Bearer <token>".
CarriedTokens(r) ==
    ({r.token} \cup (IF Len(r.authorization) = 2 /\ r.authorization[1] = "Bearer"
                     THEN {r.authorization[2]} ELSE {})) \ {""}

\* The user ids the valid credentials of a request were issued for: of the
\* tokens the JWT service accepts, or in the legacy server of a user_id
\* cookie holding a positive integer.
CredentialUsers(r) ==
    IF r.server = "jwt"
    THEN {ValidateToken(t).userID : t \in {c \in CarriedTokens(r) : ~ValidateToken(c).err}}
    ELSE IF /\ r.cookie.present
            /\ DecimalInteger(r.cookie.value) # Null
            /\ DecimalInteger(r.cookie.value)[1] > 0
    THEN {DecimalInteger(r.cookie.value)[1]}
    ELSE {}

Handled == wpc = "call" /\ resp # NoResp /\ resp' = NoResp

\* The worker moves on in this step: to the next order of the batch, or to
\* the poll timer after the last one.
MovesOn ==
    IF idx < Len(batch)
    THEN wpc' = "item" /\ idx' = idx + 1 /\ batch' = batch
    ELSE wpc' = "wait"

\* The order o after the transition the provider status st stands for, with
\* accrual acc recorded for processed.
Mapped(o, st, acc) ==
    IF st \in {StatusRegistered, StatusProcessing}
    THEN [o EXCEPT !.status = StatusProcessing]
    ELSE IF st = StatusInvalid
    THEN [o EXCEPT !.status = StatusInvalid]
    ELSE IF st = StatusProcessed
    THEN [o EXCEPT !.status = StatusProcessed, !.accrual = acc]
    ELSE o

\* C27: once a 200 exchange with a decoded status has completed (for
\* processed, with an accrual), processOrder can return with the order in
\* hand set to PROCESSING for registered and processing, to INVALID for
\* invalid, and to PROCESSED with the reported accrual for processed; and
\* whenever it returns from such an exchange the order in hand is either set
\* so, at once, or as before (the write failed), and no other order and no
\* withdrawal changes.
C27_StatusMapping ==
    /\ []( ( /\ wpc = "call" /\ ~resp.failed /\ resp.code = 200 /\ resp.decodes
             /\ resp.status # StatusOther
             /\ resp.status = StatusProcessed => resp.accrual # Null )
           => ENABLED ( /\ ProviderStatus
                        /\ orders'[batch[idx]] =
                             Mapped(orders[batch[idx]], resp.status, resp.accrual) ) )
    /\ [][(Handled /\ ~resp.failed /\ resp.code = 200 /\ resp.decodes) =>
            LET id  == batch[idx]
                acc == IF resp.accrual = Null THEN orders'[id].accrual ELSE resp.accrual
            IN  /\ DOMAIN orders' = DOMAIN orders
                /\ \A j \in DOMAIN orders : j # id => orders'[j] = orders[j]
                /\ orders'[id] \in {orders[id], Mapped(orders[id], resp.status, acc)}
                /\ withdrawals' = withdrawals]_vars

\* C27 witness: the first order is PROCESSED with the accrual 2 the provider
\* reported, the second is PROCESSING.
C27_Witness ==
    /\ Len(orders) = 2
    /\ orders[1].status = StatusProcessed /\ orders[1].accrual = Some(2)
    /\ orders[2].status = StatusProcessing /\ orders[2].accrual = Null

\* C28: when processOrder returns from a 204 exchange, no order and no
\* withdrawal changes, the order in hand is still pending, the worker moves
\* on, and the next fetch of pending orders holds the order again.
C28_UnknownUntouched ==
    [][(Handled /\ ~resp.failed /\ resp.code = 204) =>
         /\ orders' = orders /\ withdrawals' = withdrawals
         /\ IsPending(orders'[batch[idx]])
         /\ MovesOn
         /\ \E k \in DOMAIN GetPendingOrders(batchSize)' :
               GetPendingOrders(batchSize)'[k] = batch[idx]]_vars

\* C28 witness: the second order became terminal in an earlier pass, in which
\* the first was queried and left NEW; the first is fetched alone and
\* queried again, and the provider answers 204.
C28_Witness ==
    /\ Len(orders) = 2
    /\ orders[1].status = StatusNew /\ orders[2].status = StatusInvalid
    /\ wpc = "call" /\ batch = <<1>> /\ idx = 1
    /\ ~resp.failed /\ resp.code = 204

\* C29: a batch holds no order twice; and when processOrder returns from an
\* exchange that gave an error other than RateLimitError, or from a 200
\* exchange without the order in hand having changed (the write failed),
\* every order is as before, the order in hand is still pending, the worker
\* moves on to the next order of the batch or to the poll, and the next
\* fetch of pending orders holds the order again.
C29_ErrorsLocalToOrder ==
    /\ [](\A i \in DOMAIN batch : \A j \in DOMAIN batch :
             batch[i] = batch[j] => i = j)
    /\ [][( /\ Handled
            /\ \/ GetOrderInfo(resp).err \notin {"nil", "RateLimitError"}
               \/ (GetOrderInfo(resp).info # Null /\ orders'[batch[idx]] = orders[batch[idx]]) )
            => /\ orders' = orders /\ withdrawals' = withdrawals
               /\ IsPending(orders'[batch[idx]])
               /\ MovesOn
               /\ \E k \in DOMAIN GetPendingOrders(batchSize)' :
                     GetPendingOrders(batchSize)'[k] = batch[idx]]_vars

\* C29 witness: the first order of a batch of two was left NEW, the worker
\* went on to the second, and the request for the second failed.
C29_Witness ==
    /\ wpc = "call" /\ batch = <<1, 2>> /\ idx = 2
    /\ orders[1].status = StatusNew
    /\ resp.failed

\* The orders in state New or Processing, by position in submission order.
NonTerminal == {i \in DOMAIN orders : orders[i].status \in {StatusNew, StatusProcessing}}

\* b lists, oldest first, the oldest non-terminal orders, at most limit of
\* them and all of them if there are no more than limit.
OldestFirst(b, limit) ==
    /\ Len(b) <= limit
    /\ \A k \in DOMAIN b : b[k] \in NonTerminal
    /\ \A k \in DOMAIN b : \A m \in DOMAIN b : k < m => b[k] < b[m]
    /\ \A i \in NonTerminal :
          (\E k \in DOMAIN b : b[k] = i)
            \/ (Len(b) = limit /\ \A k \in DOMAIN b : b[k] < i)
    /\ (limit > 0 /\ NonTerminal # {})
          => (b # <<>> /\ \A i \in NonTerminal : b[1] <= i)

\* C30: a fetch of pending orders with any limit returns, oldest first, the
\* oldest non-terminal orders up to the limit; the batch a poll takes is the
\* fetch with limit batchSize, so it has at most batchSize orders, all New or
\* Processing when fetched, in ascending submission order and starting with
\* the oldest non-terminal order; and the worker queries the orders of the
\* batch one at a time in that order.
C30_BatchOldestFirst ==
    /\ [](\A limit \in 0..(Len(orders) + 1) :
             OldestFirst(GetPendingOrders(limit), limit))
    /\ [](wpc \in {"item", "call", "sleep"} =>
             /\ idx \in DOMAIN batch
             /\ Len(batch) <= batchSize
             /\ \A k \in DOMAIN batch : \A m \in DOMAIN batch :
                   k < m => batch[k] < batch[m])
    /\ [][ /\ (batch' # batch /\ batch' # <<>>)
               => (OldestFirst(batch', batchSize) /\ idx' = 1 /\ wpc' = "item")
           /\ (wpc # "call" /\ wpc' = "call")
               => (wpc = "item" /\ idx' = idx /\ batch' = batch)
           /\ (batch' = batch /\ batch # <<>> /\ idx' # idx)
               => idx' = idx + 1 ]_vars

\* C30 witness: the worker is querying the second order of a batch of two,
\* the first has become terminal, and a fetch with limit 1 returns the second
\* order, now the oldest non-terminal one.
C30_Witness ==
    /\ wpc = "call" /\ batch = <<1, 2>> /\ idx = 2
    /\ orders[1].status = StatusProcessed
    /\ orders[2].status = StatusNew
    /\ GetPendingOrders(1) = <<2>>

\* C31: once ctx has been cancelled, StartWorker eventually returns, whatever
\* it was doing: waiting for the poll timer, holding a batch, waiting for the
\* provider, or sleeping after a rate limit.
C31_WorkerReturns == ctxDone ~> (wpc = "stopped")

\* C31 witness: ctx was cancelled after the worker had moved the first order
\* on, and the worker has returned without the second order having changed.
C31_Witness ==
    /\ ctxDone /\ wpc = "stopped"
    /\ orders[1].status = StatusProcessing
    /\ orders[2].status = StatusNew

C33_OnlyGrows ==
    [][/\ \A i \in DOMAIN orders :
            /\ i \in DOMAIN orders'
            /\ orders'[i].user = orders[i].user
            /\ orders'[i].number = orders[i].number
       /\ \A j \in DOMAIN withdrawals :
            j \in DOMAIN withdrawals' /\ withdrawals'[j] = withdrawals[j]
       /\ withdrawals' # withdrawals
            => \E r \in Requests :
                 /\ wd[r].pc = "commit" /\ wd'[r].pc = "done" /\ wd'[r].res = "ok"
                 /\ \E t \in 1..(2 * MaxWithdrawCalls) :
                      withdrawals' = Append(withdrawals,
                                            [user |-> wd[r].user, order |-> wd[r].order,
                                             sum |-> wd[r].sum, at |-> t])
       /\ Len(orders') # Len(orders)
            => \E c \in Creators :
                 /\ co[c].pc # "done" /\ co'[c].pc = "done" /\ co'[c].res = "created"
                 /\ orders' = Append(orders,
                                     [user |-> co[c].user, number |-> co[c].number,
                                      status |-> StatusNew, accrual |-> Null])]_vars

\* C33 witness: a second order was created, the worker has accepted the first
\* order, and two Withdraw calls have each appended a withdrawal; the first
\* withdrawal is still the record of the first call.
C33_Witness ==
    /\ Len(orders) = 2 /\ co[2].res = "created"
    /\ orders[1].status = StatusProcessed
    /\ Len(withdrawals) = 2
    /\ wd[1].res = "ok" /\ wd[2].res = "ok"
    /\ withdrawals[1].user = wd[1].user /\ withdrawals[1].sum = wd[1].sum

\* C34: every order in state New or Processing is eventually queried at the
\* provider, however many older orders stay non-terminal.
C34_EveryPendingQueried ==
    \A i \in 1..(batchSize + 1) :
        (i \in DOMAIN orders /\ orders[i].status \in {StatusNew, StatusProcessing})
            ~> (wpc = "call" /\ batch[idx] = i)

\* C35: a GetBalance call that returned a balance returned a current of at
\* least 0, whatever worker credits and successful withdrawals of the same
\* user were committed between its two reads.
C35_CurrentNonNegative ==
    (gb.pc = "done" /\ gb.res = "ok") => gb.current >= 0

\* C36: every step of a Withdraw call of user A leaves the orders, the
\* withdrawals and the derived balance of every other user as they were; the
\* accrued total the call reads is the sum over A's Accepted orders, the
\* withdrawn total it reads is the sum over A's withdrawals, and the call is
\* refused for insufficient funds exactly when the totals it read leave less
\* than the amount.
C36_OtherUsersUntouched ==
    [][\A r \in Requests :
         wd'[r] # wd[r]
         => LET a == wd'[r].user
            IN  /\ \A b \in Users \ {a} :
                     /\ SelectSeq(orders', LAMBDA o : o.user = b)
                            = SelectSeq(orders, LAMBDA o : o.user = b)
                     /\ SelectSeq(withdrawals', LAMBDA w : w.user = b)
                            = SelectSeq(withdrawals, LAMBDA w : w.user = b)
                     /\ DerivedBalance(b)' = DerivedBalance(b)
                /\ (wd[r].pc = "accrued" /\ wd'[r].pc = "withdrawn")
                     => wd'[r].accrued = AcceptedSum(a)
                /\ (wd[r].pc = "withdrawn" /\ wd'[r].pc = "check")
                     => wd'[r].withdrawn = WithdrawnSum(a)
                /\ (wd[r].pc = "check" /\ wd[r].accrued - wd[r].withdrawn < wd[r].sum)
                     => wd'[r].res = "ErrInsufficientFunds"
                /\ wd'[r].res = "ErrInsufficientFunds"
                     => (wd[r].pc = "check"
                         /\ wd[r].accrued - wd[r].withdrawn < wd[r].sum)]_vars

\* C36 witness: user 2 has withdrawn, then user 1 has called Withdraw and was
\* refused for insufficient funds although user 2's balance would have covered
\* the amount; user 2's withdrawal and balance are what they were.
C36_Witness ==
    /\ Len(withdrawals) = 1 /\ withdrawals[1].user = 2
    /\ wd[1].user = 2 /\ wd[1].res = "ok"
    /\ wd[2].user = 1 /\ wd[2].pc = "done" /\ wd[2].res = "ErrInsufficientFunds"
    /\ DerivedBalance(2) >= wd[2].sum
    /\ DerivedBalance(2) = AcceptedSum(2) - withdrawals[1].sum

\* C37: a poll whose fetch fails changes nothing and leaves the worker at its
\* wait. A step that keeps the uncancelled worker at its wait while pending
\* orders are stored is such a poll (a fetch that succeeds finds a batch): it
\* changes no order, leaves the interval, the batch and the pause as they
\* were and starts no query. The worker leaves its wait only by returning or
\* with the batch a successful fetch returned, and a query starts only from
\* the item of a batch. At its wait the uncancelled worker can poll again, and
\* that poll can succeed.
C37_FetchErrorChangesNothing ==
    /\ []((wpc = "wait" /\ ~ctxDone)
            => ENABLED (WorkerPoll /\ (wpc' = "item"
                                        \/ pollInterval' = Backoff(pollInterval))))
    /\ [][/\ (wpc = "wait" /\ wpc' = "wait" /\ ~ctxDone'
               /\ GetPendingOrders(batchSize) # <<>>)
                => UNCHANGED <<orders, pollInterval, batch, idx, sleepLeft, resp>>
          /\ (wpc = "wait" /\ wpc' = "wait" /\ ~ctxDone')
                => (orders' = orders
                    /\ pollInterval' \in {pollInterval, Backoff(pollInterval)})
          /\ (wpc = "wait" /\ wpc' # "wait")
                => \/ wpc' = "stopped"
                   \/ /\ wpc' = "item"
                      /\ batch' = GetPendingOrders(batchSize)
                      /\ batch' # <<>>
          /\ (wpc # "call" /\ wpc' = "call") => wpc = "item"]_vars

\* C37 witness: the uncancelled worker is at its wait with the base interval
\* after a pass that left the first order INVALID and the second PROCESSING;
\* a fetch that fails now must leave the interval at the base.
C37_Witness ==
    /\ wpc = "wait" /\ ~ctxDone
    /\ pollInterval = BaseInterval
    /\ orders[1].status = StatusInvalid
    /\ orders[2].status = StatusProcessing
    /\ GetPendingOrders(batchSize) = <<2>>

\* The exchange in hand is a 200 whose body says processed and has no accrual.
ProcessedWithoutAccrual ==
    /\ wpc = "call" /\ ~resp.failed /\ resp.code = 200 /\ resp.decodes
    /\ resp.status = StatusProcessed /\ resp.accrual = Null

\* C38: once the provider has reported processed without an accrual,
\* processOrder can return with the order in hand PROCESSED with accrual 0;
\* whenever it returns from such an exchange the order in hand is either that
\* or as before (the write failed), and when it was written the accepted
\* total of every user is what it was and the next fetch of pending orders
\* does not hold the order. A PROCESSED order never changes again, and the
\* order of every item and of every query is a pending one.
C38_ProcessedWithoutAccrualIsZero ==
    /\ [](ProcessedWithoutAccrual
            => ENABLED (ProviderStatus
                        /\ orders'[batch[idx]] =
                             [orders[batch[idx]] EXCEPT !.status = StatusProcessed,
                                                        !.accrual = Some(0)]))
    /\ [](wpc \in {"item", "call"} => IsPending(orders[batch[idx]]))
    /\ [][/\ (Handled /\ ProcessedWithoutAccrual)
                => LET id == batch[idx]
                   IN  /\ orders'[id] \in
                            {orders[id],
                             [orders[id] EXCEPT !.status = StatusProcessed,
                                                !.accrual = Some(0)]}
                       /\ \A j \in DOMAIN orders : j # id => orders'[j] = orders[j]
                       /\ orders'[id] # orders[id]
                            => /\ \A u \in Users : AcceptedSum(u)' = AcceptedSum(u)
                               /\ \A k \in DOMAIN GetPendingOrders(batchSize)' :
                                     GetPendingOrders(batchSize)'[k] # id
          /\ \A i \in DOMAIN orders :
                orders[i].status = StatusProcessed => orders'[i] = orders[i]]_vars

\* C38 witness: the first order is PROCESSED with accrual 0, and the provider
\* has reported processed without an accrual for the second, which the
\* worker has in hand.
C38_Witness ==
    /\ ProcessedWithoutAccrual
    /\ batch = <<1, 2>> /\ idx = 2
    /\ orders[1].status = StatusProcessed /\ orders[1].accrual = Some(0)
    /\ orders[2].status = StatusNew

\* C39: whenever processOrder acts on a completed 429 exchange, GetOrderInfo
\* gave a RateLimitError with a RetryAfter above 0, which is the Retry-After
\* header value in seconds when that is a positive integer and one minute
\* when the header is absent, not a number, zero or negative; and the worker
\* starts a pause with time left.
C39_PositiveResumeDelay ==
    [][(Handled /\ ~resp.failed /\ resp.code = 429) =>
         LET ra  == GetOrderInfo(resp).retryAfter
             sec == DecimalInteger(resp.header)
         IN  /\ GetOrderInfo(resp).err = "RateLimitError"
             /\ ra > 0
             /\ (sec # Null /\ sec[1] > 0) => ra = sec[1]
             /\ (sec = Null \/ sec[1] <= 0) => ra = DefaultRetryAfter
             /\ wpc' = "sleep" /\ sleepLeft' > 0]_vars

====
